---- MODULE Spec2Model ----
(***************************************************************************)
(* Model of the osu_analysis scoring engines.                              *)
(*                                                                         *)
(*   - ManiaScoreData.get_score_data   (src/analysis/mania/score_data.py)  *)
(*   - StdScoreData.get_score_data     (src/analysis/std/score_data.py)    *)
(*                                                                         *)
(* Times are integer milliseconds.  np.nan / None are modelled by the      *)
(* sentinel NaN, an unbound Python local by Unbound.                       *)
(***************************************************************************)
EXTENDS Integers, Sequences, FiniteSets, TLC

\* ------------------------------------------------------------------------
\* Bounds of the model
\* ------------------------------------------------------------------------
MaxNotes == 2
MaxTaps == 2

\* ------------------------------------------------------------------------
\* Sentinels
\* ------------------------------------------------------------------------
NaN == -1
Unbound == -2

\* ------------------------------------------------------------------------
\* ManiaActionData / ManiaScoreData constants
\* ------------------------------------------------------------------------
FREE == 0
PRESS == 1
HOLD == 2
RELEASE == 3

Mania_TYPE_HITP == 0
Mania_TYPE_HITR == 1
Mania_TYPE_MISS == 2
Mania_TYPE_EMPTY == 3

Mania_pos_hit_range == 100
Mania_neg_hit_range == 100
Mania_pos_hit_miss_range == 200
Mania_neg_hit_miss_range == 200
Mania_pos_rel_range == 300
Mania_neg_rel_range == 300
Mania_pos_rel_miss_range == 500
Mania_neg_rel_miss_range == 500

VARIABLES
    m_map,          \* map_data argument: sequence of [stime, etime, col]
    m_replay,       \* replay_data argument: sequence of [stime, etime, col]
    m_blank_miss,   \* ManiaScoreData.blank_miss
    m_lazy_sliders, \* ManiaScoreData.lazy_sliders
    m_pc,           \* position inside get_score_data
    m_err,          \* exception raised, "" if none
    m_col,          \* map_col_idx / replay_col_idx of the column loop
    m_map_col,      \* map_col: time sorted sequence of [time, type]
    m_replay_col,   \* replay_col: time sorted sequence of [time, type]
    m_map_idx,      \* map_idx
    m_replay_idx,   \* replay_idx
    m_note_type,    \* note_type
    m_replay_time,  \* replay_time (function local, survives the column loop)
    m_replay_type,  \* replay_type
    m_column_data,  \* column_data of the column being scored
    m_score_data    \* score_data: finished columns

mvars == << m_map, m_replay, m_blank_miss, m_lazy_sliders, m_pc, m_err, m_col,
            m_map_col, m_replay_col, m_map_idx, m_replay_idx, m_note_type,
            m_replay_time, m_replay_type, m_column_data, m_score_data >>

VARIABLES
    s_map,          \* map_data argument: sequence of aimpoints
    s_settings,     \* settings argument
    s_replay,       \* replay_data argument: sequence of events
    s_map_data,     \* map_data after the single-note release filter
    s_replay_idx,   \* replay_idx
    s_pc,           \* position inside get_score_data
    s_ev,           \* replay_time, replay_xpos, replay_ypos, replay_key
    s_map_time,     \* map_time
    s_last_tap_pos, \* last_tap_pos
    s_score_data    \* score_data

svars == << s_map, s_settings, s_replay, s_map_data, s_replay_idx, s_pc, s_ev,
            s_map_time, s_last_tap_pos, s_score_data >>

VARIABLES
    c_obj,          \* attributes of a Settings instance (name -> value)
    c_err,          \* exception raised by the last Settings.__setattr__ call
    c_call,         \* key and value of the last client write to the instance
    c_writes,       \* number of client writes so far
    t_own,          \* the mania settings the caller of this run configured
    p_in,           \* arguments of a single processor call
    p_out           \* what the processor call returned and appended

xvars == << c_obj, c_err, c_call, c_writes, t_own, p_in, p_out >>

vars == << mvars, svars, xvars >>

\* ------------------------------------------------------------------------
\* Generic helpers
\* ------------------------------------------------------------------------
Range(s) == { s[i] : i \in 1..Len(s) }

Max2(a, b) == IF a >= b THEN a ELSE b

RECURSIVE SeqMax(_)
SeqMax(s) == IF Len(s) = 1 THEN s[1] ELSE Max2(s[1], SeqMax(Tail(s)))

Min2(a, b) == IF a <= b THEN a ELSE b

RECURSIVE SeqMin(_)
SeqMin(s) == IF Len(s) = 1 THEN s[1] ELSE Min2(s[1], SeqMin(Tail(s)))

\* Insert e into the time sorted sequence s after every element whose time
\* is not greater (stable).
RECURSIVE InsertByTime(_, _)
InsertByTime(s, e) ==
    IF s = << >> THEN << e >>
    ELSE IF e.time < s[1].time THEN << e >> \o s
    ELSE << s[1] >> \o InsertByTime(Tail(s), e)

\* map_col[map_col.argsort(axis=0)[:, IDX_TIME]]  (rows ordered by time)
RECURSIVE SortByTime(_)
SortByTime(s) ==
    IF s = << >> THEN << >>
    ELSE InsertByTime(SortByTime(SubSeq(s, 1, Len(s) - 1)), s[Len(s)])

\* ------------------------------------------------------------------------
\* ManiaActionData
\* ------------------------------------------------------------------------
Cols(action_data) == [ i \in 1..Len(action_data) |-> action_data[i].col ]

num_keys(action_data) ==
    IF Len(action_data) = 0 THEN 0
    ELSE SeqMax(Cols(action_data)) - SeqMin(Cols(action_data)) + 1

IsCol(c, n) == n.col = c

\* rows of action_data whose column is c, in input order
ColFilter(action_data, c) ==
    LET RECURSIVE F(_)
        F(s) == IF s = << >> THEN << >>
                ELSE IF s[1].col = c THEN << s[1] >> \o F(Tail(s))
                ELSE F(Tail(s))
    IN F(action_data)

\* The column data of get_score_data: all PRESS rows, then all RELEASE
\* rows, ordered by time.
ExpandColumn(action_data, c) ==
    LET rows == ColFilter(action_data, c)
        n    == Len(rows)
        raw  == [ i \in 1..(2 * n) |->
                    IF i <= n THEN [ time |-> rows[i].stime, type |-> PRESS ]
                    ELSE [ time |-> rows[i - n].etime, type |-> RELEASE ] ]
    IN SortByTime(raw)

Times(col_data) == [ i \in 1..Len(col_data) |-> col_data[i].time ]

\* ------------------------------------------------------------------------
\* ManiaScoreData processors.  map_times is 0-indexed in the source; At(.)
\* reads it with the source's index.  Each processor returns the records
\* it appends to column_data and the advancement it returns.
\* ------------------------------------------------------------------------
At(map_times, idx) == map_times[idx + 1]

Rec(replay_t, map_t, type, map_idx) ==
    [ replay_t |-> replay_t, map_t |-> map_t, type |-> type, map_idx |-> map_idx ]

Out(recs, adv) == [ recs |-> recs, adv |-> adv ]

\* every note is taken for a single note
IsSingleNote_always(map_times, map_idx) == TRUE

\* line 83: the note of the PRESS at map_idx is a single note
IsSingleNote(map_times, map_idx) ==
    (At(map_times, map_idx + 1) - At(map_times, map_idx)) <= 1

\* every release is taken for the release of a single note
IsSingleRelease_always(map_times, map_idx) == TRUE

\* lines 129 and 186: the note of the RELEASE at map_idx is a single note
IsSingleRelease(map_times, map_idx) ==
    (At(map_times, map_idx) - At(map_times, map_idx - 1)) <= 1

\* every press hits the awaited note and leaves the cursor on it
Mania_process_press_stay(blank_miss, lazy_sliders, replay_time, map_times, map_idx) == Out(<< Rec(replay_time, At(map_times, map_idx), Mania_TYPE_HITP, map_idx) >>, 0)

\* lines 80-119
Mania_process_press(blank_miss, lazy_sliders, replay_time, map_times, map_idx) ==
    LET time_offset    == replay_time - At(map_times, map_idx)
        is_single_note == IsSingleNote(map_times, map_idx)
    IN  IF time_offset <= -Mania_neg_hit_miss_range
        THEN Out(IF blank_miss THEN << Rec(replay_time, NaN, Mania_TYPE_EMPTY, NaN) >> ELSE << >>, 0)
        ELSE IF -Mania_neg_hit_miss_range < time_offset /\ time_offset <= -Mania_neg_hit_range
        THEN Out(<< Rec(replay_time, At(map_times, map_idx), Mania_TYPE_MISS, map_idx) >>, 2)
        ELSE IF -Mania_neg_hit_range < time_offset /\ time_offset <= Mania_pos_hit_range
        THEN Out(<< Rec(replay_time, At(map_times, map_idx), Mania_TYPE_HITP, map_idx) >>,
                 IF is_single_note \/ lazy_sliders THEN 2 ELSE 1)
        ELSE IF Mania_pos_hit_range < time_offset /\ time_offset <= Mania_pos_hit_miss_range
        THEN Out(<< Rec(replay_time, At(map_times, map_idx), Mania_TYPE_MISS, map_idx) >>, 2)
        ELSE Out(IF blank_miss THEN << Rec(replay_time, NaN, Mania_TYPE_EMPTY, NaN) >> ELSE << >>, 0)

\* every release is skipped, as if lazy_sliders were always on
Mania_process_release_lazy(blank_miss, lazy_sliders, replay_time, map_times, map_idx) == Out(<< >>, 1)

\* lines 123-167
Mania_process_release(blank_miss, lazy_sliders, replay_time, map_times, map_idx) ==
    LET time_offset    == replay_time - At(map_times, map_idx)
        is_single_note == IsSingleRelease(map_times, map_idx)
    IN  IF lazy_sliders THEN Out(<< >>, 1)
        ELSE IF is_single_note THEN Out(<< >>, 1)
        ELSE IF time_offset <= -Mania_neg_rel_miss_range
        THEN Out(IF blank_miss THEN << Rec(replay_time, NaN, Mania_TYPE_EMPTY, NaN) >> ELSE << >>, 0)
        ELSE IF -Mania_neg_rel_miss_range < time_offset /\ time_offset <= -Mania_neg_rel_range
        THEN Out(<< Rec(replay_time, At(map_times, map_idx), Mania_TYPE_MISS, map_idx) >>, 1)
        ELSE IF -Mania_neg_rel_range < time_offset /\ time_offset <= Mania_pos_rel_range
        THEN Out(<< Rec(replay_time, At(map_times, map_idx), Mania_TYPE_HITR, map_idx) >>, 1)
        ELSE IF Mania_pos_rel_range < time_offset /\ time_offset <= Mania_pos_rel_miss_range
        THEN Out(<< Rec(replay_time, At(map_times, map_idx), Mania_TYPE_MISS, map_idx) >>, 1)
        ELSE Out(IF blank_miss THEN << Rec(replay_time, NaN, Mania_TYPE_EMPTY, NaN) >> ELSE << >>, 0)

Mania_process_free_idle(lazy_sliders, note_type, replay_time, map_times, map_idx) == Out(<< >>, 0)

\* lines 171-196
Mania_process_free(lazy_sliders, note_type, replay_time, map_times, map_idx) ==
    IF map_idx >= Len(map_times) THEN Out(<< >>, 0)
    ELSE
    LET time_offset == replay_time - At(map_times, map_idx)
    IN  IF note_type = PRESS
        THEN IF Mania_pos_hit_miss_range < time_offset
             THEN Out(<< Rec(replay_time, At(map_times, map_idx), Mania_TYPE_MISS, map_idx) >>, 2)
             ELSE Out(<< >>, 0)
        ELSE IF note_type = RELEASE
        THEN IF Mania_pos_rel_miss_range < time_offset
             THEN LET is_single_note == IsSingleRelease(map_times, map_idx)
                  IN  Out(IF ~is_single_note /\ ~lazy_sliders
                          THEN << Rec(replay_time, At(map_times, map_idx), Mania_TYPE_MISS, map_idx) >>
                          ELSE << >>, 1)
             ELSE Out(<< >>, 0)
        ELSE Out(<< >>, 1)

\* note_type = map_col[map_idx, IDX_TYPE] if map_idx < map_idx_max else FREE
NoteTypeAt(map_col, map_idx) ==
    IF map_idx < Len(map_col) THEN map_col[map_idx + 1].type ELSE FREE

\* The records of the end-of-replay fill: one per remaining map event, each
\* written with map_col[map_idx], the event at the cursor.
RECURSIVE EndFill(_, _, _, _)
EndFill(replay_time, map_col, map_idx, n) ==
    IF n = 0 THEN << >>
    ELSE << Rec(replay_time, map_col[map_idx + 1].time, Mania_TYPE_EMPTY, NaN) >>
         \o EndFill(replay_time, map_col, map_idx, n - 1)

\* ------------------------------------------------------------------------
\* get_score_data as a function of its arguments (the same loop, lines
\* 219-305, folded over the replay events of a column and over the
\* columns); used to compare the runs of two different replays.
\* ------------------------------------------------------------------------
RECURSIVE ManiaCatchUp(_, _, _, _, _)
ManiaCatchUp(lazy_sliders, map_col, map_idx, replay_time, data) ==
    LET out == Mania_process_free(lazy_sliders, NoteTypeAt(map_col, map_idx),
                                  replay_time, Times(map_col), map_idx)
    IN  IF out.adv = 0 THEN [ map_idx |-> map_idx, data |-> data ]
        ELSE ManiaCatchUp(lazy_sliders, map_col, map_idx + out.adv, replay_time,
                          data \o out.recs)

RECURSIVE ManiaColumnRun(_, _, _, _, _, _, _, _)
ManiaColumnRun(blank_miss, lazy_sliders, map_col, replay_col, map_idx, replay_idx, replay_time, data) ==
    IF replay_idx >= Len(replay_col)
    THEN IF map_idx < Len(map_col)
         THEN [ ok |-> replay_time # Unbound, replay_time |-> replay_time,
                data |-> data \o EndFill(replay_time, map_col, map_idx,
                                         Len(map_col) - map_idx) ]
         ELSE [ ok |-> TRUE, replay_time |-> replay_time, data |-> data ]
    ELSE
    LET rtime == replay_col[replay_idx + 1].time
        rtype == replay_col[replay_idx + 1].type
        cu    == ManiaCatchUp(lazy_sliders, map_col, map_idx, rtime, data)
        ntype == NoteTypeAt(map_col, cu.map_idx)
        out   == IF rtype = PRESS /\ ntype = PRESS
                 THEN Mania_process_press(blank_miss, lazy_sliders, rtime,
                                          Times(map_col), cu.map_idx)
                 ELSE IF rtype = RELEASE /\ ntype = RELEASE
                 THEN Mania_process_release(blank_miss, lazy_sliders, rtime,
                                            Times(map_col), cu.map_idx)
                 ELSE Out(<< >>, 0)
    IN  ManiaColumnRun(blank_miss, lazy_sliders, map_col, replay_col,
                       cu.map_idx + out.adv, replay_idx + 1, rtime,
                       cu.data \o out.recs)

RECURSIVE ManiaColumns(_, _, _, _, _, _, _)
ManiaColumns(blank_miss, lazy_sliders, map_data, replay_data, c, replay_time, score) ==
    IF c >= num_keys(map_data) THEN [ ok |-> TRUE, score_data |-> score ]
    ELSE IF ExpandColumn(map_data, c) = << >>
    THEN [ ok |-> FALSE, score_data |-> score ]
    ELSE LET run == ManiaColumnRun(blank_miss, lazy_sliders,
                                   ExpandColumn(map_data, c),
                                   ExpandColumn(replay_data, c),
                                   0, 0, replay_time, << >>)
         IN  IF ~run.ok THEN [ ok |-> FALSE, score_data |-> score ]
             ELSE ManiaColumns(blank_miss, lazy_sliders, map_data, replay_data,
                               c + 1, run.replay_time, Append(score, run.data))

Mania_get_score_data(blank_miss, lazy_sliders, map_data, replay_data) ==
    IF num_keys(map_data) # num_keys(replay_data)
    THEN [ ok |-> FALSE, score_data |-> << >> ]
    ELSE ManiaColumns(blank_miss, lazy_sliders, map_data, replay_data, 0, Unbound, << >>)

\* The stepwise run and the folded run are the same run.
ManiaRunAgreement ==
    LET run == Mania_get_score_data(m_blank_miss, m_lazy_sliders, m_map, m_replay)
    IN  /\ (m_pc = "done") => (run.ok /\ run.score_data = m_score_data)
        /\ (m_pc = "error") => ~run.ok

\* ------------------------------------------------------------------------
\* Inputs of the mania engine
\* ------------------------------------------------------------------------
LongLen == 600

Note(s, e, c) == [ stime |-> s, etime |-> e, col |-> c ]

NoteOptions ==
    { Note(s, s + d, 0) : s \in {1000, 2000}, d \in {1, LongLen} }
    \cup { Note(1000, 1000 + d, 1) : d \in {1, LongLen} }

TapOptions ==
    { Note(p, p + d, 0) : p \in {700, 850, 1000, 1150, 1300, 2000}, d \in {30, 599} }
    \cup { Note(1000, 1000 + d, 1) : d \in {30, 599} }

Key(n) == n.stime * 10 + n.col

Ascending(s) == \A i \in 1..(Len(s) - 1) : Key(s[i]) < Key(s[i + 1])
Descending(s) == \A i \in 1..(Len(s) - 1) : Key(s[i]) > Key(s[i + 1])

\* notes (or taps) of one column never overlap and never share a time
NoOverlap(s) ==
    \A i, j \in 1..Len(s) :
        (i # j /\ s[i].col = s[j].col /\ s[i].stime <= s[j].stime)
            => s[i].etime < s[j].stime

SeqsUpTo(S, lo, hi) == UNION { [ 1..n -> S ] : n \in lo..hi }

ManiaMaps ==
    { s \in SeqsUpTo(NoteOptions, 1, MaxNotes) :
        NoOverlap(s) /\ (Ascending(s) \/ Descending(s)) }

ManiaReplays ==
    { s \in SeqsUpTo(TapOptions, 0, MaxTaps) : NoOverlap(s) /\ Ascending(s) }

\* ------------------------------------------------------------------------
\* ManiaScoreData.get_score_data
\* ------------------------------------------------------------------------
SIdle ==
    /\ s_map = << >>
    /\ s_settings = [ idle |-> TRUE ]
    /\ s_replay = << >>
    /\ s_map_data = << >>
    /\ s_replay_idx = 0
    /\ s_pc = "idle"
    /\ s_ev = << >>
    /\ s_map_time = 0
    /\ s_last_tap_pos = << NaN, NaN >>
    /\ s_score_data = << >>

\* no Settings instance under test, no single processor call
CIdle ==
    /\ c_obj = << >>
    /\ c_err = ""
    /\ c_call = << >>
    /\ c_writes = 0

PIdle ==
    /\ p_in = << >>
    /\ p_out = << >>

MInit ==
    /\ SIdle
    /\ CIdle
    /\ PIdle
    /\ m_map \in ManiaMaps
    /\ m_replay \in ManiaReplays
    /\ m_blank_miss \in BOOLEAN
    /\ m_lazy_sliders \in BOOLEAN
    /\ m_pc = "entry"
    /\ m_err = ""
    /\ m_col = 0
    /\ m_map_col = << >>
    /\ m_replay_col = << >>
    /\ m_map_idx = 0
    /\ m_replay_idx = 0
    /\ m_note_type = FREE
    /\ m_replay_time = Unbound
    /\ m_replay_type = FREE
    /\ m_column_data = << >>
    /\ m_score_data = << >>
    /\ t_own = [ blank_miss |-> m_blank_miss, lazy_sliders |-> m_lazy_sliders ]

map_num_cols == num_keys(m_map)
replay_num_cols == num_keys(m_replay)

\* the run starts on its columns without comparing the column counts
MEntry_nocheck ==
    /\ m_pc = "entry"
    /\ m_pc' = "column"
    /\ UNCHANGED << svars, xvars >>
    /\ UNCHANGED << m_map, m_replay, m_blank_miss, m_lazy_sliders, m_err, m_col,
                    m_map_col, m_replay_col, m_map_idx, m_replay_idx, m_note_type,
                    m_replay_time, m_replay_type, m_column_data, m_score_data >>

\* lines 207-213: column counts agree
MEntry ==
    /\ m_pc = "entry"
    /\ map_num_cols = replay_num_cols
    /\ m_pc' = "column"
    /\ UNCHANGED << svars, xvars >>
    /\ UNCHANGED << m_map, m_replay, m_blank_miss, m_lazy_sliders, m_err, m_col,
                    m_map_col, m_replay_col, m_map_idx, m_replay_idx, m_note_type,
                    m_replay_time, m_replay_type, m_column_data, m_score_data >>

\* lines 210-211: raise ValueError
MColumnMismatch ==
    /\ m_pc = "entry"
    /\ map_num_cols # replay_num_cols
    /\ m_pc' = "error"
    /\ m_err' = "ValueError"
    /\ UNCHANGED << svars, xvars >>
    /\ UNCHANGED << m_map, m_replay, m_blank_miss, m_lazy_sliders, m_col,
                    m_map_col, m_replay_col, m_map_idx, m_replay_idx, m_note_type,
                    m_replay_time, m_replay_type, m_column_data, m_score_data >>

\* lines 219-254: set up one column
MColumnStart ==
    /\ m_pc = "column"
    /\ m_col < map_num_cols
    /\ ExpandColumn(m_map, m_col) # << >>
    /\ m_map_col' = ExpandColumn(m_map, m_col)
    /\ m_replay_col' = ExpandColumn(m_replay, m_col)
    /\ m_map_idx' = 0
    /\ m_replay_idx' = 0
    /\ m_note_type' = ExpandColumn(m_map, m_col)[1].type
    /\ m_column_data' = << >>
    /\ m_pc' = "loop"
    /\ UNCHANGED << svars, xvars >>
    /\ UNCHANGED << m_map, m_replay, m_blank_miss, m_lazy_sliders, m_err, m_col,
                    m_replay_time, m_replay_type, m_score_data >>

\* line 249 on a column without notes: map_col[0, IDX_TYPE] raises IndexError
MColumnIndexError ==
    /\ m_pc = "column"
    /\ m_col < map_num_cols
    /\ ExpandColumn(m_map, m_col) = << >>
    /\ m_pc' = "error"
    /\ m_err' = "IndexError"
    /\ UNCHANGED << svars, xvars >>
    /\ UNCHANGED << m_map, m_replay, m_blank_miss, m_lazy_sliders, m_col,
                    m_map_col, m_replay_col, m_map_idx, m_replay_idx, m_note_type,
                    m_replay_time, m_replay_type, m_column_data, m_score_data >>

\* line 308: every column done
MReturn ==
    /\ m_pc = "column"
    /\ m_col >= map_num_cols
    /\ m_pc' = "done"
    /\ UNCHANGED << svars, xvars >>
    /\ UNCHANGED << m_map, m_replay, m_blank_miss, m_lazy_sliders, m_err, m_col,
                    m_map_col, m_replay_col, m_map_idx, m_replay_idx, m_note_type,
                    m_replay_time, m_replay_type, m_column_data, m_score_data >>

\* the column is closed with the fill records alone
MEndFill_fill_only ==
    /\ m_pc = "loop"
    /\ m_replay_idx >= Len(m_replay_col)
    /\ (m_map_idx < Len(m_map_col)) => (m_replay_time # Unbound)
    /\ m_score_data' = Append(m_score_data,
            EndFill(m_replay_time, m_map_col, m_map_idx,
                    IF m_map_idx < Len(m_map_col)
                    THEN Len(m_map_col) - m_map_idx ELSE 0))
    /\ m_column_data' = << >>
    /\ m_col' = m_col + 1
    /\ m_pc' = "column"
    /\ UNCHANGED << svars, xvars >>
    /\ UNCHANGED << m_map, m_replay, m_blank_miss, m_lazy_sliders, m_err,
                    m_map_col, m_replay_col, m_map_idx, m_replay_idx, m_note_type,
                    m_replay_time, m_replay_type >>

\* lines 261-265 and 300-305: replay exhausted, fill and close the column
MEndFill ==
    /\ m_pc = "loop"
    /\ m_replay_idx >= Len(m_replay_col)
    /\ (m_map_idx < Len(m_map_col)) => (m_replay_time # Unbound)
    /\ m_score_data' = Append(m_score_data,
            m_column_data \o EndFill(m_replay_time, m_map_col, m_map_idx,
                                     IF m_map_idx < Len(m_map_col)
                                     THEN Len(m_map_col) - m_map_idx ELSE 0))
    /\ m_column_data' = << >>
    /\ m_col' = m_col + 1
    /\ m_pc' = "column"
    /\ UNCHANGED << svars, xvars >>
    /\ UNCHANGED << m_map, m_replay, m_blank_miss, m_lazy_sliders, m_err,
                    m_map_col, m_replay_col, m_map_idx, m_replay_idx, m_note_type,
                    m_replay_time, m_replay_type >>

\* line 264 when no replay event was ever read: replay_time is unbound
MEndFillUnbound ==
    /\ m_pc = "loop"
    /\ m_replay_idx >= Len(m_replay_col)
    /\ m_map_idx < Len(m_map_col)
    /\ m_replay_time = Unbound
    /\ m_pc' = "error"
    /\ m_err' = "UnboundLocalError"
    /\ UNCHANGED << svars, xvars >>
    /\ UNCHANGED << m_map, m_replay, m_blank_miss, m_lazy_sliders, m_col,
                    m_map_col, m_replay_col, m_map_idx, m_replay_idx, m_note_type,
                    m_replay_time, m_replay_type, m_column_data, m_score_data >>

\* lines 268-269: read the next replay event
MFetch ==
    /\ m_pc = "loop"
    /\ m_replay_idx < Len(m_replay_col)
    /\ m_replay_time' = m_replay_col[m_replay_idx + 1].time
    /\ m_replay_type' = m_replay_col[m_replay_idx + 1].type
    /\ m_pc' = "free"
    /\ UNCHANGED << svars, xvars >>
    /\ UNCHANGED << m_map, m_replay, m_blank_miss, m_lazy_sliders, m_err, m_col,
                    m_map_col, m_replay_col, m_map_idx, m_replay_idx, m_note_type,
                    m_column_data, m_score_data >>

\* lines 272-278: one iteration of the catch-up loop
MFree ==
    /\ m_pc = "free"
    /\ LET out == Mania_process_free(m_lazy_sliders, m_note_type, m_replay_time,
                                     Times(m_map_col), m_map_idx)
       IN  IF out.adv = 0
           THEN /\ m_pc' = "dispatch"
                /\ UNCHANGED << m_map_idx, m_note_type, m_column_data >>
           ELSE /\ m_pc' = "free"
                /\ m_column_data' = m_column_data \o out.recs
                /\ m_map_idx' = m_map_idx + out.adv
                /\ m_note_type' = NoteTypeAt(m_map_col, m_map_idx + out.adv)
    /\ UNCHANGED << svars, xvars >>
    /\ UNCHANGED << m_map, m_replay, m_blank_miss, m_lazy_sliders, m_err, m_col,
                    m_map_col, m_replay_col, m_replay_idx,
                    m_replay_time, m_replay_type, m_score_data >>

\* lines 281-286: a press while a PRESS is awaited
MPress ==
    /\ m_pc = "dispatch"
    /\ m_replay_type = PRESS /\ m_note_type = PRESS
    /\ LET out == Mania_process_press(m_blank_miss, m_lazy_sliders, m_replay_time,
                                      Times(m_map_col), m_map_idx)
       IN  /\ m_column_data' = m_column_data \o out.recs
           /\ m_map_idx' = m_map_idx + out.adv
           /\ m_note_type' = NoteTypeAt(m_map_col, m_map_idx + out.adv)
    /\ m_replay_idx' = m_replay_idx + 1
    /\ m_pc' = "loop"
    /\ UNCHANGED << svars, xvars >>
    /\ UNCHANGED << m_map, m_replay, m_blank_miss, m_lazy_sliders, m_err, m_col,
                    m_map_col, m_replay_col,
                    m_replay_time, m_replay_type, m_score_data >>

\* lines 289-294: a release while a RELEASE is awaited
MRelease ==
    /\ m_pc = "dispatch"
    /\ m_replay_type = RELEASE /\ m_note_type = RELEASE
    /\ LET out == Mania_process_release(m_blank_miss, m_lazy_sliders, m_replay_time,
                                        Times(m_map_col), m_map_idx)
       IN  /\ m_column_data' = m_column_data \o out.recs
           /\ m_map_idx' = m_map_idx + out.adv
           /\ m_note_type' = NoteTypeAt(m_map_col, m_map_idx + out.adv)
    /\ m_replay_idx' = m_replay_idx + 1
    /\ m_pc' = "loop"
    /\ UNCHANGED << svars, xvars >>
    /\ UNCHANGED << m_map, m_replay, m_blank_miss, m_lazy_sliders, m_err, m_col,
                    m_map_col, m_replay_col,
                    m_replay_time, m_replay_type, m_score_data >>

\* an ignored event is looked at again
MIgnore_stay ==
    /\ m_pc = "dispatch"
    /\ ~(m_replay_type = PRESS /\ m_note_type = PRESS)
    /\ ~(m_replay_type = RELEASE /\ m_note_type = RELEASE)
    /\ m_pc' = "loop"
    /\ UNCHANGED << svars, xvars >>
    /\ UNCHANGED << m_map, m_replay, m_blank_miss, m_lazy_sliders, m_err, m_col,
                    m_map_col, m_replay_col, m_map_idx, m_replay_idx, m_note_type,
                    m_replay_time, m_replay_type, m_column_data, m_score_data >>

\* lines 296-298: kind mismatch, the event is ignored
MIgnore ==
    /\ m_pc = "dispatch"
    /\ ~(m_replay_type = PRESS /\ m_note_type = PRESS)
    /\ ~(m_replay_type = RELEASE /\ m_note_type = RELEASE)
    /\ m_replay_idx' = m_replay_idx + 1
    /\ m_pc' = "loop"
    /\ UNCHANGED << svars, xvars >>
    /\ UNCHANGED << m_map, m_replay, m_blank_miss, m_lazy_sliders, m_err, m_col,
                    m_map_col, m_replay_col, m_map_idx, m_note_type,
                    m_replay_time, m_replay_type, m_column_data, m_score_data >>

MNext ==
    \/ MEntry
    \/ MColumnMismatch
    \/ MColumnStart
    \/ MColumnIndexError
    \/ MReturn
    \/ MEndFill
    \/ MEndFillUnbound
    \/ MFetch
    \/ MFree
    \/ MPress
    \/ MRelease
    \/ MIgnore

SpecMania == MInit /\ [][MNext]_vars

\* ------------------------------------------------------------------------
\* Mania claims
\* ------------------------------------------------------------------------
MColsRange == 0..(map_num_cols - 1)

\* indices of the records of score_col with map_t = t
RecsAt(score_col, t) == { k \in 1..Len(score_col) : score_col[k].map_t = t }

\* indices of the records of score_col that judge an event of role `role`
\* of map_col as one of `types`
Judged(score_col, map_col, role, types) ==
    { k \in 1..Len(score_col) :
        /\ score_col[k].type \in types
        /\ score_col[k].map_idx # NaN
        /\ map_col[score_col[k].map_idx + 1].type = role }

NotesOfCol(c) == { i \in 1..Len(m_map) : m_map[i].col = c }

\* C1: when get_score_data finishes, every note of the map has exactly one
\* record in its column's output whose map_t is the note's start time.
C1_Completeness ==
    (m_pc = "done") =>
        \A i \in 1..Len(m_map) :
            Cardinality(RecsAt(m_score_data[m_map[i].col + 1], m_map[i].stime)) = 1

\* C8: when get_score_data finishes, in every column the records judging a
\* PRESS event as HIT_PRESS or MISS number exactly the notes of the column,
\* one per note start time.
C8_PressJudgmentCount ==
    (m_pc = "done") =>
        \A c \in MColsRange :
            LET score_col == m_score_data[c + 1]
                J == Judged(score_col, ExpandColumn(m_map, c), PRESS,
                            { Mania_TYPE_HITP, Mania_TYPE_MISS })
            IN  /\ Cardinality(J) = Cardinality(NotesOfCol(c))
                /\ \A i \in NotesOfCol(c) :
                      Cardinality({ k \in J : score_col[k].map_t = m_map[i].stime }) = 1

PressCount(score_col, map_col) ==
    Cardinality(Judged(score_col, map_col, PRESS, { Mania_TYPE_HITP, Mania_TYPE_MISS }))

ReleaseCount(score_col, map_col) ==
    Cardinality(Judged(score_col, map_col, RELEASE, { Mania_TYPE_HITR, Mania_TYPE_MISS }))

\* C9: the finished run of this replay and the finished run of any other
\* replay over the same map have, in every column, the same number of press
\* judgments (HIT_PRESS + press MISS) and the same number of release
\* judgments (HIT_RELEASE + release MISS).
C9_CountConsistency ==
    (m_pc = "done") =>
        \A r2 \in ManiaReplays :
            LET run2 == Mania_get_score_data(m_blank_miss, m_lazy_sliders, m_map, r2)
            IN  run2.ok =>
                  \A c \in MColsRange :
                      LET map_col == ExpandColumn(m_map, c)
                      IN  /\ PressCount(m_score_data[c + 1], map_col)
                               = PressCount(run2.score_data[c + 1], map_col)
                          /\ ReleaseCount(m_score_data[c + 1], map_col)
                               = ReleaseCount(run2.score_data[c + 1], map_col)

\* C10: when a column's replay events are exhausted, every map event the
\* cursor has not passed receives exactly one EMPTY record whose map_t is
\* that event's own time.
C10_EndFillOwnTime ==
    [][ (m_pc = "loop" /\ m_replay_idx >= Len(m_replay_col)) =>
          /\ m_pc' = "column"
          /\ LET closed    == m_score_data'[Len(m_score_data')]
                 remaining == Len(m_map_col) - m_map_idx
             IN  /\ Len(closed) = Len(m_column_data) + Max2(remaining, 0)
                 /\ \A j \in 1..remaining :
                       /\ closed[Len(m_column_data) + j].type = Mania_TYPE_EMPTY
                       /\ closed[Len(m_column_data) + j].map_t
                            = m_map_col[m_map_idx + j].time ]_vars

\* ========================================================================
\* StdScoreData (src/analysis/std/score_data.py)
\* ========================================================================
Std_ADV_NOP == 0
Std_ADV_AIMP == 1
Std_ADV_NOTE == 2

Std_TYPE_HITP == 0
Std_TYPE_HITR == 1
Std_TYPE_AIMH == 2
Std_TYPE_MISS == 3
Std_TYPE_EMPTY == 4

\* Settings.__init__.  A radius r is kept as 2*r, so that 36.5 is the
\* integer 73.
DefaultSettings ==
    [ neg_hit_miss_range |-> 200, neg_hit_range |-> 100,
      pos_hit_range |-> 100, pos_hit_miss_range |-> 200,
      neg_rel_miss_range |-> 1000, neg_rel_range |-> 500,
      pos_rel_range |-> 500, pos_rel_miss_range |-> 1000,
      neg_hld_range |-> 0, pos_hld_range |-> 1000,
      hitobject_radius_x2 |-> 73, release_radius_x2 |-> 200,
      follow_radius_x2 |-> 200,
      ar_ms |-> 450,
      notelock |-> TRUE, dynamic_window |-> FALSE,
      blank_miss |-> FALSE, recoverable_release |-> TRUE,
      release_miss |-> TRUE, miss_slider |-> TRUE, press_miss |-> TRUE,
      recoverable_missaim |-> TRUE,
      overlap_miss_handling |-> FALSE, overlap_hit_handling |-> FALSE,
      press_block |-> FALSE, release_block |-> FALSE,
      require_tap_press |-> TRUE, require_tap_release |-> TRUE,
      require_tap_hold |-> TRUE,
      require_aim_press |-> TRUE, require_aim_release |-> TRUE,
      require_aim_hold |-> TRUE ]

\* pos_offset > radius, for pos_offset = (dx**2 + dy**2)**0.5
FartherThan(dx, dy, radius_x2) == 4 * (dx * dx + dy * dy) > radius_x2 * radius_x2

\* a row of map_data; hitobject is the first level of its index
Aimpoint(t, x, y, type, object, hitobject) ==
    [ time |-> t, x |-> x, y |-> y, type |-> type, object |-> object,
      hitobject |-> hitobject ]

\* a row of replay_data
Event(t, x, y, key) == [ time |-> t, x |-> x, y |-> y, key |-> key ]

\* a row of the std score_data
SRec(replay_t, map_t, replay_x, replay_y, map_x, map_y, type, action) ==
    [ replay_t |-> replay_t, map_t |-> map_t, replay_x |-> replay_x,
      replay_y |-> replay_y, map_x |-> map_x, map_y |-> map_y,
      type |-> type, action |-> action ]

\* what a processor did: the records appended, the advancement returned
\* and the value it leaves in last_tap_pos
SOut(recs, adv, tap) == [ recs |-> recs, adv |-> adv, tap |-> tap ]

\* a filter that keeps every row
FilterSingleRelease_keep(map_data) == map_data

\* lines 686-695: drop the RELEASE row of a single note
FilterSingleRelease(map_data) ==
    LET keep(i) ==
            \/ i = 1
            \/ ~ ( /\ map_data[i - 1].type = PRESS
                   /\ map_data[i].type = RELEASE
                   /\ map_data[i].time - map_data[i - 1].time = 1
                   /\ map_data[i].x - map_data[i - 1].x = 0
                   /\ map_data[i].y - map_data[i - 1].y = 0 )
        RECURSIVE F(_)
        F(i) == IF i > Len(map_data) THEN << >>
                ELSE IF keep(i) THEN << map_data[i] >> \o F(i + 1)
                ELSE F(i + 1)
    IN F(1)

\* StdMapData.all_times
all_times(map_data) == [ i \in 1..Len(map_data) |-> map_data[i].time ]

\* StdMapData.get_scorepoint_after: first aimpoint later than map_time,
\* NaN when there is none
get_scorepoint_after(map_data, map_time) ==
    LET later == { i \in 1..Len(map_data) : map_data[i].time > map_time }
    IN  IF later = { } THEN NaN
        ELSE map_data[CHOOSE i \in later : \A j \in later : i <= j].time

\* StdMapData.get_note_after: first aimpoint time of the first hit-object
\* that starts later than map_time, NaN when there is none
get_note_after(map_data, map_time) ==
    LET first(i) == \A j \in 1..Len(map_data) :
                        map_data[j].hitobject = map_data[i].hitobject => i <= j
        later == { i \in 1..Len(map_data) : first(i) /\ map_data[i].time > map_time }
    IN  IF later = { } THEN NaN
        ELSE map_data[CHOOSE i \in later : \A j \in later : i <= j].time

\* an advancement that finds nothing after the cursor starts over at the
\* first aimpoint
Std_adv_rewind(map_data, map_time, adv) ==
    IF adv = Std_ADV_NOP THEN map_time
    ELSE IF adv = Std_ADV_AIMP
    THEN IF get_scorepoint_after(map_data, map_time) = NaN
         THEN all_times(map_data)[1]
         ELSE get_scorepoint_after(map_data, map_time)
    ELSE IF adv = Std_ADV_NOTE
    THEN IF get_note_after(map_data, map_time) = NaN
         THEN all_times(map_data)[1]
         ELSE get_note_after(map_data, map_time)
    ELSE map_time

\* lines 253-270
Std_adv(map_data, map_time, adv) ==
    IF adv = Std_ADV_NOP THEN map_time
    ELSE IF adv = Std_ADV_AIMP
    THEN IF get_scorepoint_after(map_data, map_time) = NaN
         THEN all_times(map_data)[Len(map_data)] + 1
         ELSE get_scorepoint_after(map_data, map_time)
    ELSE IF adv = Std_ADV_NOTE
    THEN IF get_note_after(map_data, map_time) = NaN
         THEN all_times(map_data)[Len(map_data)] + 1
         ELSE get_note_after(map_data, map_time)
    ELSE map_time

\* a missed slider always gives up the rest of the slider
MissAdv_note(settings) == Std_ADV_NOTE

\* lines 568, 573, 639: advancement after a missed slider aimpoint
MissAdv(settings) == IF settings.miss_slider THEN Std_ADV_NOTE ELSE Std_ADV_AIMP

\* a release in the middle of a slider is never forgiven
HoldReleaseMisses_always(settings) == settings.require_tap_hold

\* lines 631-635: a release while a HOLD aimpoint is awaited is a miss
HoldReleaseMisses(settings) == settings.require_tap_hold /\ ~settings.recoverable_release

\* a hit press always moves on to the next note
PressHitAdv_note(ap) == Std_ADV_NOTE

\* lines 516-519: a hit slider start moves on to the slider's next aimpoint
PressHitAdv(ap) == IF ap.object = "SLIDER" THEN Std_ADV_AIMP ELSE Std_ADV_NOTE

\* a press is given up as soon as its hit window closes
PressIsLate_hit(settings, time_offset) == time_offset > settings.pos_hit_range

\* line 291: the press can no longer be judged by a tap
PressIsLate(settings, time_offset) == time_offset > settings.pos_hit_miss_range

\* a hold is given up only after the hold window, whatever was released
FreeHoldDeadline_window(settings) == settings.pos_hld_range

\* lines 391-394: the latest offset at which a hold can still be made
FreeHoldDeadline(settings) == IF settings.recoverable_release THEN settings.pos_hld_range ELSE 0

\* lines 274-449.  ap is aimpoints[0].
Std_process_free(settings, ap, replay_time, replay_xpos, replay_ypos, last_tap_pos) ==
    LET time_offset == replay_time - ap.time
        posx_offset == replay_xpos - ap.x
        posy_offset == replay_ypos - ap.y
        nop         == SOut(<< >>, Std_ADV_NOP, last_tap_pos)
        emit(x, y, type, action, adv) ==
            SOut(<< SRec(replay_time, ap.time, x, y, ap.x, ap.y, type, action) >>,
                 adv, last_tap_pos)
        proc_press ==
            LET is_late_timing == PressIsLate(settings, time_offset)
                is_miss_aiming == FartherThan(posx_offset, posy_offset,
                                              settings.hitobject_radius_x2)
            IN  IF settings.require_aim_press /\ settings.require_tap_press
                THEN IF is_late_timing
                     THEN emit(last_tap_pos[1], last_tap_pos[2], Std_TYPE_MISS, PRESS, Std_ADV_NOTE)
                     ELSE nop
                ELSE IF settings.require_aim_press /\ ~settings.require_tap_press
                THEN IF is_miss_aiming
                     THEN IF is_late_timing
                          THEN emit(replay_xpos, replay_ypos, Std_TYPE_MISS, PRESS, Std_ADV_NOTE)
                          ELSE nop
                     ELSE IF time_offset >= 0
                          THEN emit(replay_xpos, replay_ypos, Std_TYPE_HITP, PRESS, Std_ADV_NOTE)
                          ELSE nop
                ELSE IF ~settings.require_aim_press /\ settings.require_tap_press
                THEN IF is_late_timing
                     THEN emit(last_tap_pos[1], last_tap_pos[2], Std_TYPE_MISS, PRESS, Std_ADV_NOTE)
                     ELSE nop
                ELSE IF time_offset >= 0
                     THEN emit(ap.x, ap.y, Std_TYPE_HITP, PRESS, Std_ADV_NOTE)
                     ELSE nop
        proc_release ==
            LET rec_x == IF settings.require_aim_release THEN replay_xpos ELSE ap.x
                rec_y == IF settings.require_aim_release THEN replay_ypos ELSE ap.y
                is_late_timing == time_offset > settings.pos_rel_miss_range
                is_miss_aiming == FartherThan(posx_offset, posy_offset,
                                              settings.release_radius_x2)
            IN  IF settings.require_aim_release /\ settings.require_tap_release
                THEN IF is_late_timing
                     THEN emit(rec_x, rec_y, Std_TYPE_MISS, RELEASE, Std_ADV_NOTE)
                     ELSE nop
                ELSE IF settings.require_aim_release /\ ~settings.require_tap_release
                THEN IF is_miss_aiming
                     THEN IF is_late_timing
                          THEN emit(rec_x, rec_y, Std_TYPE_MISS, RELEASE, Std_ADV_NOTE)
                          ELSE nop
                     ELSE IF time_offset >= 0
                          THEN emit(rec_x, rec_y, Std_TYPE_HITR, RELEASE, Std_ADV_NOTE)
                          ELSE nop
                ELSE IF ~settings.require_aim_release /\ settings.require_tap_release
                THEN IF is_late_timing
                     THEN emit(rec_x, rec_y, Std_TYPE_MISS, RELEASE, Std_ADV_NOTE)
                     ELSE nop
                ELSE IF time_offset >= 0
                     THEN emit(rec_x, rec_y, Std_TYPE_HITR, RELEASE, Std_ADV_NOTE)
                     ELSE nop
        proc_hold ==
            LET is_late_timing == time_offset > FreeHoldDeadline(settings)
                is_miss_aiming == FartherThan(posx_offset, posy_offset,
                                              settings.release_radius_x2)
                rec_x == IF settings.require_aim_hold THEN replay_xpos ELSE ap.x
                rec_y == IF settings.require_aim_hold THEN replay_ypos ELSE ap.y
            IN  IF settings.require_aim_hold /\ settings.require_tap_hold
                THEN IF is_late_timing
                     THEN emit(rec_x, rec_y, Std_TYPE_MISS, HOLD, MissAdv(settings))
                     ELSE nop
                ELSE IF settings.require_aim_hold /\ ~settings.require_tap_hold
                THEN IF is_miss_aiming
                     THEN IF is_late_timing
                          THEN emit(rec_x, rec_y, Std_TYPE_MISS, HOLD, MissAdv(settings))
                          ELSE nop
                     ELSE IF time_offset >= 0
                          THEN emit(rec_x, rec_y, Std_TYPE_AIMH, HOLD, Std_ADV_AIMP)
                          ELSE nop
                ELSE IF ~settings.require_aim_hold /\ settings.require_tap_hold
                THEN IF is_late_timing
                     THEN emit(rec_x, rec_y, Std_TYPE_MISS, HOLD, MissAdv(settings))
                     ELSE nop
                ELSE IF time_offset >= 0
                     THEN emit(rec_x, rec_y, Std_TYPE_AIMH, HOLD, Std_ADV_AIMP)
                     ELSE nop
    IN  IF replay_time < ap.time THEN nop
        ELSE IF ap.type = PRESS THEN proc_press
        ELSE IF ap.type = RELEASE THEN proc_release
        ELSE IF ap.type = HOLD THEN proc_hold
        ELSE SOut(<< >>, Std_ADV_NOTE, last_tap_pos)

\* lines 453-533
Std_process_press(settings, ap, replay_time, replay_xpos, replay_ypos, last_tap_pos) ==
    LET time_offset == replay_time - ap.time
        posx_offset == replay_xpos - ap.x
        posy_offset == replay_ypos - ap.y
        is_miss_aim == /\ settings.require_aim_press
                       /\ FartherThan(posx_offset, posy_offset, settings.hitobject_radius_x2)
        rec_x == IF settings.require_aim_press THEN replay_xpos ELSE ap.x
        rec_y == IF settings.require_aim_press THEN replay_ypos ELSE ap.y
        tap   == settings.require_tap_press
        is_in_neg_nothing_range ==
            IF tap THEN time_offset <= -settings.neg_hit_miss_range
            ELSE settings.blank_miss /\ (time_offset <= -settings.neg_hit_miss_range)
        is_in_neg_miss_range ==
            tap /\ -settings.neg_hit_miss_range < time_offset
                /\ time_offset <= -settings.neg_hit_range
        is_in_hit_range ==
            IF tap THEN -settings.neg_hit_range < time_offset
                        /\ time_offset <= settings.pos_hit_range
            ELSE time_offset >= 0
        is_in_pos_miss_range ==
            tap /\ settings.pos_hit_range < time_offset
                /\ time_offset <= settings.pos_hit_miss_range
        nop == SOut(<< >>, Std_ADV_NOP, last_tap_pos)
        empty(x, y, tappos) ==
            SOut(IF settings.blank_miss
                 THEN << SRec(replay_time, NaN, x, y, NaN, NaN, Std_TYPE_EMPTY, PRESS) >>
                 ELSE << >>, Std_ADV_NOP, tappos)
        miss == IF settings.press_miss
                THEN SOut(<< SRec(replay_time, ap.time, rec_x, rec_y, ap.x, ap.y,
                                  Std_TYPE_MISS, PRESS) >>, Std_ADV_NOTE, last_tap_pos)
                ELSE nop
    IN  IF ap.type # PRESS THEN nop
        ELSE IF is_miss_aim THEN empty(replay_xpos, replay_ypos, << replay_xpos, replay_ypos >>)
        ELSE IF is_in_neg_nothing_range THEN empty(rec_x, rec_y, last_tap_pos)
        ELSE IF is_in_neg_miss_range THEN miss
        ELSE IF is_in_hit_range
        THEN SOut(<< SRec(replay_time, ap.time, rec_x, rec_y, ap.x, ap.y,
                          Std_TYPE_HITP, PRESS) >>,
                  PressHitAdv(ap), last_tap_pos)
        ELSE IF is_in_pos_miss_range THEN miss
        ELSE nop

\* lines 537-591
Std_process_hold(settings, ap, replay_time, replay_xpos, replay_ypos, last_tap_pos) ==
    LET time_offset == replay_time - ap.time
        posx_offset == replay_xpos - ap.x
        posy_offset == replay_ypos - ap.y
        is_miss_aim == /\ settings.require_aim_hold
                       /\ FartherThan(posx_offset, posy_offset, settings.follow_radius_x2)
        rec_x == IF settings.require_aim_hold THEN replay_xpos ELSE ap.x
        rec_y == IF settings.require_aim_hold THEN replay_ypos ELSE ap.y
        is_in_neg_nothing_range ==
            settings.require_tap_hold /\ time_offset <= -settings.neg_hld_range
        is_in_hold_range ==
            IF settings.require_tap_hold
            THEN -settings.neg_hld_range < time_offset /\ time_offset <= settings.pos_hld_range
            ELSE time_offset >= 0
        nop  == SOut(<< >>, Std_ADV_NOP, last_tap_pos)
        miss == SOut(<< SRec(replay_time, ap.time, rec_x, rec_y, ap.x, ap.y,
                             Std_TYPE_MISS, HOLD) >>, MissAdv(settings), last_tap_pos)
    IN  IF ap.type # HOLD THEN nop
        ELSE IF is_miss_aim
        THEN IF settings.recoverable_missaim
             THEN IF settings.pos_hld_range < time_offset THEN miss ELSE nop
             ELSE miss
        ELSE IF is_in_neg_nothing_range THEN nop
        ELSE IF is_in_hold_range
        THEN SOut(<< SRec(replay_time, ap.time, rec_x, rec_y, ap.x, ap.y,
                          Std_TYPE_AIMH, HOLD) >>, Std_ADV_AIMP, last_tap_pos)
        ELSE nop

\* a release is a hit only inside the release window
ReleaseHitRange_window(settings, time_offset) ==
    -settings.neg_rel_range < time_offset /\ time_offset <= settings.pos_rel_range

\* lines 622 and 628: is_in_rel_range
ReleaseHitRange(settings, time_offset) ==
    IF settings.require_tap_release
    THEN -settings.neg_rel_range < time_offset /\ time_offset <= settings.pos_rel_range
    ELSE time_offset >= 0

\* lines 595-674
Std_process_release(settings, ap, replay_time, replay_xpos, replay_ypos, last_tap_pos) ==
    LET time_offset == replay_time - ap.time
        posx_offset == replay_xpos - ap.x
        posy_offset == replay_ypos - ap.y
        is_miss_aim == /\ settings.require_aim_release
                       /\ FartherThan(posx_offset, posy_offset, settings.release_radius_x2)
        rec_x == IF settings.require_aim_release THEN replay_xpos ELSE ap.x
        rec_y == IF settings.require_aim_release THEN replay_ypos ELSE ap.y
        tap   == settings.require_tap_release
        is_in_neg_nothing_range == tap /\ time_offset <= -settings.neg_rel_miss_range
        is_in_neg_miss_range ==
            tap /\ -settings.neg_rel_miss_range < time_offset
                /\ time_offset <= -settings.neg_rel_range
        is_in_rel_range == ReleaseHitRange(settings, time_offset)
        is_in_pos_miss_range ==
            tap /\ settings.pos_rel_range < time_offset
                /\ time_offset <= settings.pos_rel_miss_range
        nop == SOut(<< >>, Std_ADV_NOP, last_tap_pos)
        rec(type, action, adv) ==
            SOut(<< SRec(replay_time, ap.time, rec_x, rec_y, ap.x, ap.y, type, action) >>,
                 adv, last_tap_pos)
    IN  IF ap.type = PRESS THEN nop
        ELSE IF ap.type = HOLD
        THEN IF HoldReleaseMisses(settings)
             THEN rec(Std_TYPE_MISS, HOLD, MissAdv(settings))
             ELSE nop
        ELSE IF is_miss_aim THEN rec(Std_TYPE_MISS, RELEASE, Std_ADV_NOTE)
        ELSE IF is_in_neg_nothing_range THEN nop
        ELSE IF is_in_neg_miss_range
        THEN IF settings.release_miss THEN rec(Std_TYPE_MISS, RELEASE, Std_ADV_NOTE) ELSE nop
        ELSE IF is_in_rel_range THEN rec(Std_TYPE_HITR, RELEASE, Std_ADV_NOTE)
        ELSE IF is_in_pos_miss_range
        THEN IF settings.release_miss THEN rec(Std_TYPE_MISS, RELEASE, Std_ADV_NOTE) ELSE nop
        ELSE nop

\* ------------------------------------------------------------------------
\* Std inputs

MaxEvents == 3

\* the circle of the test fixture: PRESS and RELEASE 1 ms apart at the same
\* place
CircleMap ==
    << Aimpoint(1000, 500, 500, PRESS, "CIRCLE", 1),
       Aimpoint(1001, 500, 500, RELEASE, "CIRCLE", 1) >>

\* the slider of the test fixture: PRESS, two HOLDs along the path, RELEASE
SliderMap ==
    << Aimpoint(100, 0, 0, PRESS, "SLIDER", 0),
       Aimpoint(350, 100, 0, HOLD, "SLIDER", 0),
       Aimpoint(600, 200, 0, HOLD, "SLIDER", 0),
       Aimpoint(750, 300, 0, RELEASE, "SLIDER", 0) >>

\* the two cursor positions of the replays: the head of the slider and the
\* circle, each far outside every radius of the other
Positions == { << SliderMap[1].x, SliderMap[1].y >>, << CircleMap[1].x, CircleMap[1].y >> }

BlankMissSettings == [ DefaultSettings EXCEPT !.blank_miss = TRUE ]
StrictSliderSettings == [ DefaultSettings EXCEPT !.recoverable_missaim = FALSE ]

CircleTimes == { 850, 1000, 1001, 1150, 1300 }
SliderTimes == { 100, 200, 300, 750, 1400 }

EventsAt(times) ==
    { Event(t, p[1], p[2], k) :
        t \in times, p \in Positions, k \in { FREE, PRESS, HOLD, RELEASE } }

\* replays of exactly n events, ordered by time
RECURSIVE ReplaysOfLen(_, _)
ReplaysOfLen(times, n) ==
    IF n = 0 THEN { << >> }
    ELSE LET shorter == ReplaysOfLen(times, n - 1)
         IN  UNION { { Append(r, e) :
                         e \in { f \in EventsAt(times) :
                                   n = 1 \/ r[n - 1].time < f.time } } :
                     r \in shorter }

\* replays of at most MaxEvents events
StdReplays(times) == UNION { ReplaysOfLen(times, n) : n \in 0..MaxEvents }

StdScenarios ==
    { << CircleMap, DefaultSettings, CircleTimes >>,
      << CircleMap, BlankMissSettings, CircleTimes >>,
      << SliderMap, DefaultSettings, SliderTimes >>,
      << SliderMap, StrictSliderSettings, SliderTimes >> }

MIdle ==
    /\ m_map = << >>
    /\ m_replay = << >>
    /\ m_blank_miss = FALSE
    /\ m_lazy_sliders = FALSE
    /\ m_pc = "idle"
    /\ m_err = ""
    /\ m_col = 0
    /\ m_map_col = << >>
    /\ m_replay_col = << >>
    /\ m_map_idx = 0
    /\ m_replay_idx = 0
    /\ m_note_type = FREE
    /\ m_replay_time = Unbound
    /\ m_replay_type = FREE
    /\ m_column_data = << >>
    /\ m_score_data = << >>

SInit ==
    /\ MIdle
    /\ CIdle
    /\ PIdle
    /\ t_own = [ blank_miss |-> FALSE, lazy_sliders |-> FALSE ]
    /\ \E sc \in StdScenarios :
         /\ s_map = sc[1]
         /\ s_settings = sc[2]
         /\ s_replay \in StdReplays(sc[3])
    /\ s_map_data = << >>
    /\ s_replay_idx = 0
    /\ s_pc = "entry"
    /\ s_ev = << >>
    /\ s_map_time = 0
    /\ s_last_tap_pos = << NaN, NaN >>
    /\ s_score_data = << >>

\* ------------------------------------------------------------------------
\* StdScoreData.get_score_data, lines 678-796

map_times == all_times(s_map_data)
map_time_max == map_times[Len(map_times)]

\* StdReplayData.get_reduced_replay_data: with press_block and
\* release_block both off no event is rewritten
get_reduced_replay_data(replay_data, press_block, release_block) == replay_data

\* lines 710-714
earliest_window_range ==
    Max2(Max2(s_settings.neg_hit_miss_range, s_settings.neg_rel_miss_range),
         s_settings.neg_hld_range)

\* lines 749-750: the rows whose time is map_time
current_aimpoint ==
    LET sel == { i \in 1..Len(s_map_data) : s_map_data[i].time = s_map_time }
    IN  s_map_data[CHOOSE i \in sel : \A j \in sel : i <= j]

\* lines 765-774: the rows with replay_time <= time <= replay_time + ar_ms
visible_notes_select ==
    { i \in 1..Len(s_map_data) :
        /\ s_ev.time <= s_map_data[i].time
        /\ s_map_data[i].time <= s_ev.time + s_settings.ar_ms }

visible_notes == s_map_data[CHOOSE i \in visible_notes_select :
                                \A j \in visible_notes_select : i <= j]

\* lines 782-785
Dispatch(ap) ==
    IF s_ev.key = FREE
    THEN Std_process_free(s_settings, ap, s_ev.time, s_ev.x, s_ev.y, s_last_tap_pos)
    ELSE IF s_ev.key = PRESS
    THEN Std_process_press(s_settings, ap, s_ev.time, s_ev.x, s_ev.y, s_last_tap_pos)
    ELSE IF s_ev.key = HOLD
    THEN Std_process_hold(s_settings, ap, s_ev.time, s_ev.x, s_ev.y, s_last_tap_pos)
    ELSE Std_process_release(s_settings, ap, s_ev.time, s_ev.x, s_ev.y, s_last_tap_pos)

\* lines 680-720
SEntry ==
    /\ s_pc = "entry"
    /\ s_map_data' = FilterSingleRelease(s_map)
    /\ s_map_time' = all_times(s_map_data')[1]
    /\ s_replay' = get_reduced_replay_data(s_replay, s_settings.press_block,
                                           s_settings.release_block)
    /\ s_replay_idx' = 0
    /\ s_last_tap_pos' = << NaN, NaN >>
    /\ s_score_data' = << >>
    /\ s_pc' = "loop"
    /\ UNCHANGED << s_map, s_settings, s_ev >>
    /\ UNCHANGED << mvars, xvars >>

\* lines 725-726 and 795-796
SBreak ==
    /\ s_pc = "loop"
    /\ s_replay_idx >= Len(s_replay)
    /\ s_pc' = "done"
    /\ UNCHANGED << s_map, s_settings, s_replay, s_map_data, s_replay_idx, s_ev,
                    s_map_time, s_last_tap_pos, s_score_data >>
    /\ UNCHANGED << mvars, xvars >>

\* lines 729-735
SFetch ==
    /\ s_pc = "loop"
    /\ s_replay_idx < Len(s_replay)
    /\ s_ev' = s_replay[s_replay_idx + 1]
    /\ s_replay_idx' = s_replay_idx + 1
    /\ s_pc' = "catchup"
    /\ UNCHANGED << s_map, s_settings, s_replay, s_map_data, s_map_time,
                    s_last_tap_pos, s_score_data >>
    /\ UNCHANGED << mvars, xvars >>

\* lines 739-755: the three ways out of the catch-up loop
CatchUpBreaks ==
    IF s_map_time > map_time_max THEN TRUE
    ELSE IF s_ev.time < s_map_time - earliest_window_range THEN TRUE
    ELSE Std_process_free(s_settings, current_aimpoint, s_ev.time, s_ev.x, s_ev.y,
                          s_last_tap_pos).adv = Std_ADV_NOP

SCatchUpBreak ==
    /\ s_pc = "catchup"
    /\ CatchUpBreaks
    /\ s_pc' = "dispatch"
    /\ UNCHANGED << s_map, s_settings, s_replay, s_map_data, s_replay_idx, s_ev,
                    s_map_time, s_last_tap_pos, s_score_data >>
    /\ UNCHANGED << mvars, xvars >>

\* lines 749-761: one turn of the catch-up loop that advances
SCatchUp ==
    /\ s_pc = "catchup"
    /\ ~ CatchUpBreaks
    /\ LET out == Std_process_free(s_settings, current_aimpoint, s_ev.time,
                                   s_ev.x, s_ev.y, s_last_tap_pos)
       IN  /\ s_score_data' = s_score_data \o out.recs
           /\ s_last_tap_pos' = << NaN, NaN >>
           /\ s_map_time' = Std_adv(s_map_data, s_map_time, out.adv)
    /\ UNCHANGED << s_map, s_settings, s_replay, s_map_data, s_replay_idx, s_ev,
                    s_pc >>
    /\ UNCHANGED << mvars, xvars >>

\* lines 765-772
SNothingVisible ==
    /\ s_pc = "dispatch"
    /\ visible_notes_select = { }
    /\ s_pc' = "loop"
    /\ UNCHANGED << s_map, s_settings, s_replay, s_map_data, s_replay_idx, s_ev,
                    s_map_time, s_last_tap_pos, s_score_data >>
    /\ UNCHANGED << mvars, xvars >>

\* lines 774-792
SDispatch ==
    /\ s_pc = "dispatch"
    /\ visible_notes_select # { }
    /\ LET out == Dispatch(visible_notes)
       IN  /\ s_score_data' = s_score_data \o out.recs
           /\ s_last_tap_pos' = IF out.adv # Std_ADV_NOP THEN << NaN, NaN >>
                                ELSE out.tap
           /\ s_map_time' = Std_adv(s_map_data, s_map_time, out.adv)
    /\ s_pc' = "loop"
    /\ UNCHANGED << s_map, s_settings, s_replay, s_map_data, s_replay_idx, s_ev >>
    /\ UNCHANGED << mvars, xvars >>

SNext ==
    \/ SEntry
    \/ SBreak
    \/ SFetch
    \/ SCatchUpBreak
    \/ SCatchUp
    \/ SNothingVisible
    \/ SDispatch

SpecStd == SInit /\ [][SNext]_vars

\* ------------------------------------------------------------------------
\* Std claims

SRecsOfType(type) == { i \in 1..Len(s_score_data) : s_score_data[i].type = type }

\* the records appended by the step
NewRecs == { i \in 1..Len(s_score_data') : i > Len(s_score_data) }

\* C2: when a run has ended, the map cursor does not rest on an aimpoint
\* that has no record: the aimpoints left over after the last replay
\* event were swept with FREE logic.
C2_EndOfReplaySweep ==
    s_pc = "done" =>
        \A i \in 1..Len(s_map_data) :
            s_map_data[i].time = s_map_time =>
                \E k \in 1..Len(s_score_data) :
                    s_score_data[k].map_t = s_map_data[i].time

\* C3: every record that action dispatch emits for an aimpoint has map_t
\* equal to the map cursor time at that moment (a blank tap's EMPTY record
\* names no aimpoint).
C3_DispatchJudgesCursor ==
    [][ (s_pc = "dispatch" /\ s_pc' = "loop") =>
            \A k \in NewRecs :
                s_score_data'[k].type # Std_TYPE_EMPTY =>
                    s_score_data'[k].map_t = s_map_time ]_vars

\* the replay's only key press is a PRESS on the circle, later than the
\* hit window and inside the late miss window
LateMissReplay ==
    /\ \E i \in 1..Len(s_replay) :
         /\ s_replay[i].key = PRESS
         /\ s_replay[i].x = CircleMap[1].x /\ s_replay[i].y = CircleMap[1].y
         /\ s_replay[i].time - CircleMap[1].time > DefaultSettings.pos_hit_range
         /\ s_replay[i].time - CircleMap[1].time <= DefaultSettings.pos_hit_miss_range
         /\ \A j \in 1..Len(s_replay) :
              j # i => s_replay[j].key \in { FREE, RELEASE }

\* C4: with default settings, one circle and a replay whose only key press
\* is a late PRESS on the circle inside the miss window, the output holds
\* exactly one MISS with map_t the circle's time and no HIT_PRESS.
C4_LateMiss ==
    (s_pc = "done" /\ s_map = CircleMap /\ s_settings = DefaultSettings
        /\ LateMissReplay) =>
        /\ Cardinality(SRecsOfType(Std_TYPE_MISS)) = 1
        /\ \A k \in SRecsOfType(Std_TYPE_MISS) :
             s_score_data[k].map_t = CircleMap[1].time
        /\ SRecsOfType(Std_TYPE_HITP) = { }

\* scenario S1: PRESS at t on the circle, RELEASE at t+1 at the same place
PerfectCircleRun ==
    /\ s_pc = "done"
    /\ s_map = CircleMap
    /\ s_settings = DefaultSettings
    /\ s_replay = << Event(CircleMap[1].time, CircleMap[1].x, CircleMap[1].y, PRESS),
                     Event(CircleMap[2].time, CircleMap[2].x, CircleMap[2].y, RELEASE) >>

OneHitPressAtOffset0 ==
    /\ Cardinality(SRecsOfType(Std_TYPE_HITP)) = 1
    /\ \A k \in SRecsOfType(Std_TYPE_HITP) :
         s_score_data[k].replay_t - s_score_data[k].map_t = 0

\* C5, as stated: in scenario S1 the output holds exactly one HIT_PRESS
\* with offset 0 and exactly one HIT_RELEASE.
C5_PerfectCircle ==
    PerfectCircleRun =>
        /\ OneHitPressAtOffset0
        /\ Cardinality(SRecsOfType(Std_TYPE_HITR)) = 1

\* C5, amended: in scenario S1 the output holds exactly one HIT_PRESS with
\* offset 0 and no HIT_RELEASE, because the circle's RELEASE aimpoint is
\* filtered out before scoring; the HIT_PRESS is the only record.
C5_PerfectCircleAmended ==
    PerfectCircleRun =>
        /\ OneHitPressAtOffset0
        /\ SRecsOfType(Std_TYPE_HITR) = { }
        /\ Len(s_score_data) = 1

\* scenario S1 has run to its end and its HIT_PRESS is recorded
C5_Witness ==
    /\ PerfectCircleRun
    /\ Len(s_score_data) = 1
    /\ s_score_data[1].type = Std_TYPE_HITP
    /\ s_score_data[1].map_t = CircleMap[1].time

\* a HOLD aimpoint of the slider has been judged MISS
HoldMissed ==
    \E k \in 1..Len(s_score_data) :
        /\ s_score_data[k].type = Std_TYPE_MISS
        /\ s_score_data[k].action = HOLD

\* scenario S6: PRESS on the note, then the cursor stays outside the
\* follow radius
SliderCascadeRun ==
    /\ s_pc = "done"
    /\ s_map = SliderMap
    /\ s_settings = StrictSliderSettings
    /\ Len(s_replay) >= 2
    /\ s_replay[1] = Event(SliderMap[1].time, SliderMap[1].x, SliderMap[1].y, PRESS)
    /\ \A i \in 2..Len(s_replay) :
         /\ s_replay[i].key = HOLD
         /\ FartherThan(s_replay[i].x - SliderMap[2].x, s_replay[i].y - SliderMap[2].y,
                       s_settings.follow_radius_x2)
         /\ s_replay[i].time < SliderMap[2].time

\* C6: with miss_slider on, once a HOLD aimpoint of a slider is judged
\* MISS no further record is emitted for an aimpoint of that slider, and
\* in scenario S6 the records are exactly HIT_PRESS followed by one MISS.
C6_SliderMissCascade ==
    /\ [][ (s_map = SliderMap /\ s_settings.miss_slider /\ HoldMissed) =>
              \A k \in NewRecs :
                  s_score_data'[k].map_t \notin Range(all_times(SliderMap)) ]_vars
    /\ [](SliderCascadeRun =>
              /\ Len(s_score_data) = 2
              /\ s_score_data[1].type = Std_TYPE_HITP
              /\ s_score_data[2].type = Std_TYPE_MISS)

\* C7: with blank_miss on, when a PRESS lands outside the hit radius of the
\* awaited note and the note is judged MISS afterwards, the output holds an
\* EMPTY record with the tap's position and the MISS record carries the
\* tap's position as its replay position.
C7_BlankTapBackDating ==
    (s_pc = "done" /\ s_map = CircleMap /\ s_settings.blank_miss) =>
        \A i \in 1..Len(s_replay) :
            \A k \in SRecsOfType(Std_TYPE_MISS) :
                ( /\ s_replay[i].key = PRESS
                  /\ FartherThan(s_replay[i].x - CircleMap[1].x,
                                 s_replay[i].y - CircleMap[1].y,
                                 s_settings.hitobject_radius_x2)
                  /\ s_score_data[k].map_t = CircleMap[1].time
                  /\ s_score_data[k].replay_t > s_replay[i].time ) =>
                    /\ \E e \in SRecsOfType(Std_TYPE_EMPTY) :
                         /\ s_score_data[e].replay_t = s_replay[i].time
                         /\ s_score_data[e].replay_x = s_replay[i].x
                         /\ s_score_data[e].replay_y = s_replay[i].y
                    /\ s_score_data[k].replay_x = s_replay[i].x
                    /\ s_score_data[k].replay_y = s_replay[i].y

\* ------------------------------------------------------------------------
\* A map holding an aimpoint whose role is none of PRESS, HOLD, RELEASE

Roles == { PRESS, HOLD, RELEASE }

UnknownRoleMap == << Aimpoint(1000, 500, 500, FREE, "CIRCLE", 1) >>

UnknownRoleTimes == { 850, 1000, 1150, 1300 }

SRoleInit ==
    /\ MIdle
    /\ CIdle
    /\ PIdle
    /\ t_own = [ blank_miss |-> FALSE, lazy_sliders |-> FALSE ]
    /\ s_map = UnknownRoleMap
    /\ s_settings \in { DefaultSettings, BlankMissSettings }
    /\ s_replay \in StdReplays(UnknownRoleTimes)
    /\ s_map_data = << >>
    /\ s_replay_idx = 0
    /\ s_pc = "entry"
    /\ s_ev = << >>
    /\ s_map_time = 0
    /\ s_last_tap_pos = << NaN, NaN >>
    /\ s_score_data = << >>

SpecRoles == SRoleInit /\ [][SNext]_vars

\* C15: the std run aborts on an aimpoint whose role is none of PRESS,
\* HOLD, RELEASE: the map cursor never moves past such an aimpoint and no
\* record is judged against it.
C15_UnknownRoleAborts ==
    s_pc \in { "loop", "catchup", "dispatch", "done" } =>
        \A i \in 1..Len(s_map_data) :
            s_map_data[i].type \notin Roles =>
                /\ s_map_time <= s_map_data[i].time
                /\ \A r \in Range(s_score_data) : r.map_t # s_map_data[i].time

\* ------------------------------------------------------------------------
\* Both engines: a run is a mania run or a std run

AllInit ==
    \/ MInit
    \/ SInit
    \/ SRoleInit

AllNext ==
    \/ MNext
    \/ SNext

SpecAll == AllInit /\ [][AllNext]_vars

MInColumn(pc) == pc \in { "loop", "free", "dispatch" }

\* C16: within a run every update leaves the std map cursor time, and the
\* map index of the mania column being scored, greater than or equal to
\* its previous value.
C16_MonotoneCursors ==
    [][ /\ (s_pc \notin { "idle", "entry" }) => (s_map_time' >= s_map_time)
        /\ (MInColumn(m_pc) /\ MInColumn(m_pc')) => (m_map_idx' >= m_map_idx) ]_vars

\* a std run has judged an aimpoint and moved its cursor forward
C16_Witness ==
    /\ s_pc = "loop"
    /\ s_score_data # << >>
    /\ s_map_time > s_map_data[1].time

\* ------------------------------------------------------------------------
\* Two callers of the mania engine.  The settings of a mania run are the
\* class attributes of ManiaScoreData (lines 43-77), read while the run
\* is in progress (lines 88-189).

\* another caller sets the class attributes for a run of their own
TOtherCaller ==
    /\ m_pc \in { "entry", "column", "loop", "free", "dispatch" }
    /\ \E b \in BOOLEAN, l \in BOOLEAN :
         /\ << b, l >> # << m_blank_miss, m_lazy_sliders >>
         /\ m_blank_miss' = b
         /\ m_lazy_sliders' = l
    /\ UNCHANGED << m_map, m_replay, m_pc, m_err, m_col, m_map_col, m_replay_col,
                    m_map_idx, m_replay_idx, m_note_type, m_replay_time,
                    m_replay_type, m_column_data, m_score_data >>
    /\ UNCHANGED << svars, xvars >>

SharedNext ==
    \/ MNext
    \/ TOtherCaller

SpecShared == MInit /\ [][SharedNext]_vars

\* the stream the run returns when it runs alone with its own settings
RunAlone == Mania_get_score_data(t_own.blank_miss, t_own.lazy_sliders, m_map, m_replay)

\* C17: a run interleaved with another caller's run returns exactly the
\* stream it returns when run alone with its own settings.
C17_NoSharedState ==
    m_pc = "done" => (RunAlone.ok /\ m_score_data = RunAlone.score_data)

\* ------------------------------------------------------------------------
\* One call of a std processor

MaxOffset == 1000

Offsets == (-MaxOffset)..(MaxOffset + 1)

\* the cursor on the aimpoint, on the edge of the radius, and one past it
Distances(radius_x2) == { 0, radius_x2 \div 2, radius_x2 \div 2 + 1 }

PressAimpoints ==
    { Aimpoint(1000, 500, 500, PRESS, "CIRCLE", 1),
      Aimpoint(1000, 500, 500, PRESS, "SLIDER", 1) }

HoldAimpoint == Aimpoint(1000, 500, 500, HOLD, "SLIDER", 1)

PressSettings ==
    { [ DefaultSettings EXCEPT !.blank_miss = b, !.press_miss = pm,
                               !.require_tap_press = rt,
                               !.neg_hit_range = w[1], !.pos_hit_miss_range = w[2] ] :
        b \in BOOLEAN, pm \in BOOLEAN, rt \in BOOLEAN,
        w \in { << 100, 200 >>, << 50, 300 >> } }

HoldSettings ==
    { [ DefaultSettings EXCEPT !.require_aim_hold = ra, !.recoverable_missaim = rm,
                               !.miss_slider = ms,
                               !.neg_hld_range = w[1], !.pos_hld_range = w[2] ] :
        ra \in BOOLEAN, rm \in BOOLEAN, ms \in BOOLEAN,
        w \in { << 0, 1000 >>, << 50, 300 >> } }

ReleaseSettings ==
    { [ DefaultSettings EXCEPT !.require_tap_hold = rt, !.recoverable_release = rr,
                               !.miss_slider = ms ] :
        rt \in BOOLEAN, rr \in BOOLEAN, ms \in BOOLEAN }

ReleaseAimpoint == Aimpoint(1000, 500, 500, RELEASE, "SLIDER", 1)

ReleaseWindowSettings ==
    { [ DefaultSettings EXCEPT !.require_aim_release = ra, !.require_tap_release = rt,
                               !.release_miss = rm,
                               !.neg_rel_range = w[1], !.pos_rel_range = w[2] ] :
        ra \in BOOLEAN, rt \in BOOLEAN, rm \in BOOLEAN,
        w \in { << 500, 500 >>, << 50, 300 >> } }

FreePressSettings ==
    { [ DefaultSettings EXCEPT !.require_aim_press = ra, !.require_tap_press = rt,
                               !.pos_hit_miss_range = w ] :
        ra \in BOOLEAN, rt \in BOOLEAN, w \in { 200, 300 } }

FreeHoldSettings ==
    { [ DefaultSettings EXCEPT !.require_aim_hold = ra, !.require_tap_hold = rt,
                               !.recoverable_release = rr, !.miss_slider = ms,
                               !.pos_hld_range = w ] :
        ra \in BOOLEAN, rt \in BOOLEAN, rr \in BOOLEAN, ms \in BOOLEAN,
        w \in { 1000, 300 } }

\* a follow radius of 50, half the release radius
FollowRadiusSettings ==
    { [ DefaultSettings EXCEPT !.follow_radius_x2 = 100, !.require_tap_hold = rt ] :
        rt \in BOOLEAN }

Call(proc, settings, ap, time_offset, dist) ==
    [ proc |-> proc, settings |-> settings, ap |-> ap,
      replay_time |-> ap.time + time_offset,
      replay_xpos |-> ap.x + dist, replay_ypos |-> ap.y,
      last_tap_pos |-> << NaN, NaN >> ]

PInit ==
    /\ MIdle
    /\ SIdle
    /\ CIdle
    /\ t_own = [ blank_miss |-> FALSE, lazy_sliders |-> FALSE ]
    /\ \/ \E st \in PressSettings, ap \in PressAimpoints, off \in Offsets,
               d \in Distances(DefaultSettings.hitobject_radius_x2) :
             p_in = Call("press", st, ap, off, d)
       \/ \E st \in HoldSettings, off \in Offsets,
               d \in Distances(DefaultSettings.follow_radius_x2) :
             p_in = Call("hold", st, HoldAimpoint, off, d)
       \/ \E st \in ReleaseSettings, off \in Offsets,
               d \in Distances(DefaultSettings.release_radius_x2) :
             p_in = Call("release", st, HoldAimpoint, off, d)
       \/ \E st \in ReleaseWindowSettings, off \in Offsets,
               d \in Distances(DefaultSettings.release_radius_x2) :
             p_in = Call("release", st, ReleaseAimpoint, off, d)
       \/ \E st \in FreePressSettings, ap \in PressAimpoints, off \in Offsets,
               d \in Distances(DefaultSettings.hitobject_radius_x2) :
             p_in = Call("free", st, ap, off, d)
       \/ \E st \in FreeHoldSettings, off \in Offsets,
               d \in Distances(DefaultSettings.release_radius_x2) :
             p_in = Call("free", st, HoldAimpoint, off, d)
       \/ \E st \in FollowRadiusSettings, proc \in { "hold", "free" }, off \in Offsets :
             \E d \in Distances(st.follow_radius_x2) \cup Distances(st.release_radius_x2) :
               p_in = Call(proc, st, HoldAimpoint, off, d)
    /\ p_out = << >>

Called == DOMAIN p_out # { }

\* StdScoreData.__process_press(settings, score_data, aimpoints, ...)
PApplyPress ==
    /\ ~ Called
    /\ p_in.proc = "press"
    /\ p_out' = Std_process_press(p_in.settings, p_in.ap, p_in.replay_time,
                                  p_in.replay_xpos, p_in.replay_ypos, p_in.last_tap_pos)
    /\ UNCHANGED << c_obj, c_err, c_call, c_writes, t_own, p_in >>
    /\ UNCHANGED << mvars, svars >>

\* StdScoreData.__process_hold(settings, score_data, aimpoints, ...)
PApplyHold ==
    /\ ~ Called
    /\ p_in.proc = "hold"
    /\ p_out' = Std_process_hold(p_in.settings, p_in.ap, p_in.replay_time,
                                 p_in.replay_xpos, p_in.replay_ypos, p_in.last_tap_pos)
    /\ UNCHANGED << c_obj, c_err, c_call, c_writes, t_own, p_in >>
    /\ UNCHANGED << mvars, svars >>

\* StdScoreData.__process_release(settings, score_data, aimpoints, ...)
PApplyRelease ==
    /\ ~ Called
    /\ p_in.proc = "release"
    /\ p_out' = Std_process_release(p_in.settings, p_in.ap, p_in.replay_time,
                                    p_in.replay_xpos, p_in.replay_ypos, p_in.last_tap_pos)
    /\ UNCHANGED << c_obj, c_err, c_call, c_writes, t_own, p_in >>
    /\ UNCHANGED << mvars, svars >>

\* StdScoreData.__process_free(settings, score_data, aimpoints, ...)
PApplyFree ==
    /\ ~ Called
    /\ p_in.proc = "free"
    /\ p_out' = Std_process_free(p_in.settings, p_in.ap, p_in.replay_time,
                                 p_in.replay_xpos, p_in.replay_ypos, p_in.last_tap_pos)
    /\ UNCHANGED << c_obj, c_err, c_call, c_writes, t_own, p_in >>
    /\ UNCHANGED << mvars, svars >>

PNext ==
    \/ PApplyPress
    \/ PApplyHold
    \/ PApplyRelease
    \/ PApplyFree

SpecProc == PInit /\ [][PNext]_vars

p_offset == p_in.replay_time - p_in.ap.time

p_outside(radius_x2) ==
    FartherThan(p_in.replay_xpos - p_in.ap.x, p_in.replay_ypos - p_in.ap.y, radius_x2)

\* the call was a no-op: nothing appended, no advancement
p_nop == p_out.recs = << >> /\ p_out.adv = Std_ADV_NOP

\* the call appended exactly one record of this type and returned adv
p_one(type, adv) ==
    /\ Len(p_out.recs) = 1
    /\ p_out.recs[1].type = type
    /\ p_out.adv = adv

\* C18: with require_tap_press and press_miss on and the tap within
\* hitobject_radius of a PRESS aimpoint, the time offset selects exactly
\* one zone: at or before -neg_hit_miss_range no advancement and no
\* judgment (an EMPTY record exactly when blank_miss); up to
\* -neg_hit_range a MISS advancing NOTE; up to pos_hit_range a HIT_PRESS
\* advancing AIMP on a slider start and NOTE on a circle; up to
\* pos_hit_miss_range a MISS advancing NOTE; later nothing.
C18_PressZones ==
    ( /\ Called
      /\ p_in.proc = "press"
      /\ p_in.settings.require_tap_press
      /\ p_in.settings.press_miss
      /\ ~ p_outside(p_in.settings.hitobject_radius_x2) ) =>
        LET st == p_in.settings
            off == p_offset
        IN  /\ (off <= -st.neg_hit_miss_range) =>
                    IF st.blank_miss THEN p_one(Std_TYPE_EMPTY, Std_ADV_NOP) ELSE p_nop
            /\ (-st.neg_hit_miss_range < off /\ off <= -st.neg_hit_range) =>
                    p_one(Std_TYPE_MISS, Std_ADV_NOTE)
            /\ (-st.neg_hit_range < off /\ off <= st.pos_hit_range) =>
                    p_one(Std_TYPE_HITP,
                          IF p_in.ap.object = "SLIDER" THEN Std_ADV_AIMP ELSE Std_ADV_NOTE)
            /\ (st.pos_hit_range < off /\ off <= st.pos_hit_miss_range) =>
                    p_one(Std_TYPE_MISS, Std_ADV_NOTE)
            /\ (st.pos_hit_miss_range < off) => p_nop

\* a slider start was pressed on time and on the note
C18_Witness ==
    /\ Called
    /\ p_in.proc = "press"
    /\ p_in.ap.object = "SLIDER"
    /\ p_in.settings.press_miss
    /\ p_offset = -p_in.settings.neg_hit_range + 1
    /\ ~ p_outside(p_in.settings.hitobject_radius_x2)
    /\ p_one(Std_TYPE_HITP, Std_ADV_AIMP)

\* C19: on a HOLD aimpoint, when aim is required and the cursor is
\* farther than follow_radius, the hold processor emits a MISS only after
\* pos_hld_range if missed aim is recoverable and at any offset if it is
\* not, the MISS advancing NOTE if miss_slider and AIMP otherwise;
\* when the aim is not missed and a tap is required, an offset in
\* (-neg_hld_range, pos_hld_range] emits AIM_HOLD advancing AIMP and any
\* other offset does nothing.
C19_HoldProcessor ==
    ( Called /\ p_in.proc = "hold" ) =>
        LET st == p_in.settings
            off == p_offset
            missadv == IF st.miss_slider THEN Std_ADV_NOTE ELSE Std_ADV_AIMP
        IN  IF st.require_aim_hold /\ p_outside(st.follow_radius_x2)
            THEN IF st.recoverable_missaim
                 THEN IF off > st.pos_hld_range
                      THEN p_one(Std_TYPE_MISS, missadv)
                      ELSE p_nop
                 ELSE p_one(Std_TYPE_MISS, missadv)
            ELSE st.require_tap_hold =>
                    IF -st.neg_hld_range < off /\ off <= st.pos_hld_range
                    THEN p_one(Std_TYPE_AIMH, Std_ADV_AIMP)
                    ELSE p_nop

\* a hold off the slider path was missed with miss_slider off
C19_Witness ==
    /\ Called
    /\ p_in.proc = "hold"
    /\ p_in.settings.require_aim_hold
    /\ ~ p_in.settings.recoverable_missaim
    /\ ~ p_in.settings.miss_slider
    /\ p_outside(p_in.settings.follow_radius_x2)
    /\ p_one(Std_TYPE_MISS, Std_ADV_AIMP)

\* C20: a release judged while a HOLD aimpoint is awaited emits exactly
\* one MISS, advancing NOTE if miss_slider and AIMP otherwise, when a tap
\* is required for holds and a release is not recoverable, at every
\* offset and cursor position; in every other case it does nothing.
C20_ReleaseOnHold ==
    ( Called /\ p_in.proc = "release" /\ p_in.ap.type = HOLD ) =>
        LET st == p_in.settings
        IN  IF st.require_tap_hold /\ ~ st.recoverable_release
            THEN p_one(Std_TYPE_MISS,
                       IF st.miss_slider THEN Std_ADV_NOTE ELSE Std_ADV_AIMP)
            ELSE p_nop

\* a release in the middle of a slider was forgiven
C20_Witness ==
    /\ Called
    /\ p_in.proc = "release"
    /\ p_in.ap.type = HOLD
    /\ p_in.settings.require_tap_hold
    /\ p_in.settings.recoverable_release
    /\ p_outside(p_in.settings.release_radius_x2)
    /\ p_nop

p_on_note == ~ p_in.settings.require_aim_press \/ ~ p_outside(p_in.settings.hitobject_radius_x2)

C23_FreeOnHold ==
    ( Called /\ p_in.proc = "free" /\ p_in.ap.type = HOLD
             /\ p_in.settings.require_tap_hold ) =>
        LET st == p_in.settings
            deadline == IF st.recoverable_release THEN st.pos_hld_range ELSE 0
        IN  IF p_offset > deadline
            THEN p_one(Std_TYPE_MISS, IF st.miss_slider THEN Std_ADV_NOTE ELSE Std_ADV_AIMP)
            ELSE p_nop

\* a hold was given up right after its time because releases are final
C23_Witness ==
    /\ Called
    /\ p_in.proc = "free"
    /\ p_in.ap.type = HOLD
    /\ p_in.settings.require_tap_hold
    /\ ~ p_in.settings.recoverable_release
    /\ ~ p_in.settings.miss_slider
    /\ p_offset = 1
    /\ p_one(Std_TYPE_MISS, Std_ADV_AIMP)

\* C24: the press processor with no tap required and the tap on the
\* note: every offset >= 0 is a HIT_PRESS; every offset < 0 returns NOP,
\* with exactly one EMPTY record when blank_miss is on and no record when
\* it is off.
C24_PressNoTap ==
    ( /\ Called
      /\ p_in.proc = "press"
      /\ ~ p_in.settings.require_tap_press
      /\ ~ p_outside(p_in.settings.hitobject_radius_x2) ) =>
        IF p_offset >= 0
        THEN Len(p_out.recs) = 1 /\ p_out.recs[1].type = Std_TYPE_HITP
        ELSE IF p_in.settings.blank_miss
        THEN p_one(Std_TYPE_EMPTY, Std_ADV_NOP)
        ELSE p_nop

\* the step ends the handling of a PRESS replay event
PressHandled == s_pc = "dispatch" /\ s_pc' = "loop" /\ s_ev.key = PRESS

\* a PRESS aimpoint is awaited and the tap lands outside its
\* hitobject_radius or earlier than its early miss window
EngagesNoNote ==
    IF s_map_time > map_time_max THEN FALSE
    ELSE LET ap == current_aimpoint
         IN  /\ ap.type = PRESS
             /\ \/ FartherThan(s_ev.x - ap.x, s_ev.y - ap.y, s_settings.hitobject_radius_x2)
                \/ s_ev.time - ap.time <= -s_settings.neg_hit_miss_range

\* C25: in any run, a PRESS replay event that engages no note appends
\* exactly one EMPTY record carrying the tap position when blank_miss is
\* on, and appends no record when blank_miss is off.
C25_BlankTaps ==
    [][ (PressHandled /\ EngagesNoNote) =>
            IF s_settings.blank_miss
            THEN /\ Len(s_score_data') = Len(s_score_data) + 1
                 /\ SubSeq(s_score_data', 1, Len(s_score_data)) = s_score_data
                 /\ s_score_data'[Len(s_score_data')].type = Std_TYPE_EMPTY
                 /\ s_score_data'[Len(s_score_data')].replay_x = s_ev.x
                 /\ s_score_data'[Len(s_score_data')].replay_y = s_ev.y
            ELSE s_score_data' = s_score_data ]_vars

\* C14: when the map and the replay have different column counts the mania
\* run ends in a ValueError, no column is scored before the failure and
\* no stream, not even a partial one, is produced.
C14_ColumnMismatchFails ==
    (num_keys(m_map) # num_keys(m_replay)) =>
        /\ m_pc \in { "entry", "error" }
        /\ m_pc = "error" => m_err = "ValueError"
        /\ m_pc = "entry" => (ENABLED MColumnMismatch /\ ~ ENABLED MEntry)
        /\ m_col = 0
        /\ m_column_data = << >>
        /\ m_score_data = << >>

\* a run on a map and a replay of different column counts has failed
C14_Witness ==
    /\ num_keys(m_map) # num_keys(m_replay)
    /\ Len(m_map) > 0
    /\ Len(m_replay) > 0
    /\ m_pc = "error"
    /\ m_err = "ValueError"

\* ------------------------------------------------------------------------
\* StdScoreData.Settings, lines 45-249

MaxWrites == 2

\* the attribute that self.__is_frozen names inside the class
FrozenFlag == "_Settings__is_frozen"

\* object.__setattr__(self, key, value)
SetAttr(obj, key, value) ==
    [ k \in (DOMAIN obj) \cup { key } |-> IF k = key THEN value ELSE obj[k] ]

\* outcome of one __setattr__ call: the instance afterwards and the
\* exception raised ("" when none)
SetOut(obj, err) == [ obj |-> obj, err |-> err ]

\* a frozen instance refuses every write
Settings_setattr_locked(obj, key, value) ==
    IF FrozenFlag \notin DOMAIN obj
    THEN SetOut(SetAttr(SetAttr(obj, FrozenFlag, FALSE), key, value), "")
    ELSE IF ~ obj[FrozenFlag]
    THEN SetOut(SetAttr(obj, key, value), "")
    ELSE SetOut(obj, "KeyError")

\* lines 47-63
Settings_setattr(obj, key, value) ==
    IF FrozenFlag \notin DOMAIN obj
    THEN SetOut(SetAttr(SetAttr(obj, FrozenFlag, FALSE), key, value), "")
    ELSE IF ~ obj[FrozenFlag]
    THEN SetOut(SetAttr(obj, key, value), "")
    ELSE IF key \notin DOMAIN obj
    THEN SetOut(obj, "KeyError")
    ELSE IF key = "__is_frozen"
    THEN SetOut(obj, "KeyError")
    ELSE SetOut(SetAttr(obj, key, value), "")

\* the names __init__ assigns, in the order of lines 89-232
SettingsFields ==
    << "neg_hit_miss_range", "neg_hit_range", "pos_hit_range", "pos_hit_miss_range",
       "neg_rel_miss_range", "neg_rel_range", "pos_rel_range", "pos_rel_miss_range",
       "neg_hld_range", "pos_hld_range",
       "hitobject_radius_x2", "release_radius_x2", "follow_radius_x2", "ar_ms",
       "notelock", "dynamic_window", "blank_miss", "recoverable_release",
       "release_miss", "miss_slider", "press_miss", "recoverable_missaim",
       "overlap_miss_handling", "overlap_hit_handling", "press_block",
       "release_block", "require_tap_press", "require_tap_release",
       "require_tap_hold", "require_aim_press", "require_aim_release",
       "require_aim_hold" >>

\* lines 66-249: every assignment of __init__ goes through __setattr__
RECURSIVE AssignFields(_, _)
AssignFields(obj, n) ==
    IF n = 0 THEN obj
    ELSE Settings_setattr(AssignFields(obj, n - 1), SettingsFields[n],
                          DefaultSettings[SettingsFields[n]]).obj

Settings_init ==
    Settings_setattr(
        AssignFields(Settings_setattr(<< >>, FrozenFlag, FALSE).obj, Len(SettingsFields)),
        FrozenFlag, TRUE).obj

\* the settings a scoring run reads from the instance
SettingsOf(obj) == [ f \in DOMAIN DefaultSettings |-> obj[f] ]

\* client writes: recognised fields, the freeze flag under both of its
\* spellings, and a name the record does not define
WriteOptions ==
    { << "blank_miss", TRUE >>, << "neg_hit_range", 50 >>, << "neg_hit_range", 300 >>,
      << "neg_hit_range", 0 >>, << "pos_hld_range", 2000 >>,
      << "press_miss", FALSE >>, << "release_miss", FALSE >>,
      << FrozenFlag, FALSE >>, << "__is_frozen", FALSE >>, << "bogus", 1 >> }

CInit ==
    /\ MIdle
    /\ SIdle
    /\ CIdle
    /\ PIdle
    /\ t_own = [ blank_miss |-> FALSE, lazy_sliders |-> FALSE ]

\* settings = StdScoreData.Settings()
CConstruct ==
    /\ DOMAIN c_obj = { }
    /\ c_obj' = Settings_init
    /\ UNCHANGED << c_err, c_call, c_writes, t_own, p_in, p_out >>
    /\ UNCHANGED << mvars, svars >>

\* settings.<key> = <value>
CWrite ==
    /\ DOMAIN c_obj # { }
    /\ s_pc = "idle"
    /\ c_writes < MaxWrites
    /\ \E call \in WriteOptions :
         LET out == Settings_setattr(c_obj, call[1], call[2])
         IN  /\ c_obj' = out.obj
             /\ c_err' = out.err
             /\ c_call' = [ key |-> call[1], value |-> call[2] ]
    /\ c_writes' = c_writes + 1
    /\ UNCHANGED << t_own, p_in, p_out >>
    /\ UNCHANGED << mvars, svars >>

\* StdScoreData.get_score_data(replay_data, map_data, settings), line 678
CScore ==
    /\ DOMAIN c_obj # { }
    /\ s_pc = "idle"
    /\ s_settings' = SettingsOf(c_obj)
    /\ \E sc \in { << CircleMap, CircleTimes >>, << SliderMap, SliderTimes >> } :
         /\ s_map' = sc[1]
         /\ s_replay' \in UNION { ReplaysOfLen(sc[2], n) : n \in 0..1 }
    /\ s_pc' = "entry"
    /\ UNCHANGED << s_map_data, s_replay_idx, s_ev, s_map_time, s_last_tap_pos,
                    s_score_data >>
    /\ UNCHANGED << mvars, xvars >>

CNext ==
    \/ CConstruct
    \/ CWrite
    \/ CScore
    \/ SNext

SpecSettings == CInit /\ [][CNext]_vars

\* the step is a client write to the instance
IsWrite == c_writes' = c_writes + 1

Frozen == (FrozenFlag \in DOMAIN c_obj) /\ c_obj[FrozenFlag]

C12_UnknownRejected ==
    [][ (IsWrite /\ c_call'.key \notin DOMAIN c_obj) =>
            (c_err' = "KeyError" /\ DOMAIN c_obj' = DOMAIN c_obj) ]_vars

\* section 3 of the spec: the ordering the timing windows must satisfy
WindowsValid(settings) ==
    /\ 0 < settings.neg_hit_range
    /\ settings.neg_hit_range <= settings.neg_hit_miss_range
    /\ 0 < settings.pos_hit_range
    /\ settings.pos_hit_range <= settings.pos_hit_miss_range
    /\ 0 < settings.neg_rel_range
    /\ settings.neg_rel_range <= settings.neg_rel_miss_range
    /\ 0 < settings.pos_rel_range
    /\ settings.pos_rel_range <= settings.pos_rel_miss_range
    /\ settings.pos_hld_range <= settings.pos_rel_miss_range

\* C13: no scoring run is performed with settings whose timing windows
\* violate the ordering invariants.
C13_InvalidWindowsRejected ==
    s_pc # "idle" => WindowsValid(s_settings)

\* C26: with press_miss off no run emits a MISS record for a PRESS
\* aimpoint, and with release_miss off no run emits a MISS record for a
\* RELEASE aimpoint.
C26_MissSwitches ==
    s_pc # "idle" =>
        /\ ~ s_settings.press_miss =>
              \A r \in Range(s_score_data) :
                  ~ (r.type = Std_TYPE_MISS /\ r.action = PRESS)
        /\ ~ s_settings.release_miss =>
              \A r \in Range(s_score_data) :
                  ~ (r.type = Std_TYPE_MISS /\ r.action = RELEASE)

\* ------------------------------------------------------------------------
\* Mania scenario S4: one long note, pressed on time and released 1 ms early

PerfectLongRun ==
    /\ Len(m_map) = 1
    /\ Len(m_replay) = 1
    /\ m_map[1].col = 0
    /\ m_map[1].etime - m_map[1].stime > 1
    /\ m_replay[1] = Note(m_map[1].stime, m_map[1].etime - 1, 0)

\* C27: with the default windows and lazy_sliders at its default (off),
\* the run on one long note with a press at its start and a release 1 ms
\* before its end returns for the column exactly one HIT_PRESS with
\* offset 0 followed by one HIT_RELEASE with offset -1, and no MISS or
\* EMPTY record.
C27_PerfectLongNote ==
    ( PerfectLongRun /\ ~ t_own.lazy_sliders ) =>
        /\ m_pc # "error"
        /\ m_pc = "done" =>
              m_score_data =
                << << Rec(m_map[1].stime, m_map[1].stime, Mania_TYPE_HITP, 0),
                      Rec(m_map[1].etime - 1, m_map[1].etime, Mania_TYPE_HITR, 1) >> >>

\* the perfect run on the long note has returned
C27_Witness ==
    /\ PerfectLongRun
    /\ ~ t_own.lazy_sliders
    /\ m_pc = "done"
    /\ Len(m_score_data[1]) = 2

\* ------------------------------------------------------------------------
\* One call of a mania processor

\* map_times of a column: a single note and a long note, in both orders
ManiaColumnTimes == { << 1000, 1001, 2000, 2600 >>, << 1000, 1600, 2000, 2001 >> }

\* the map events alternate PRESS, RELEASE; past the end nothing is awaited
ManiaTypeAt(times, map_idx) ==
    IF map_idx >= Len(times) THEN FREE
    ELSE IF map_idx % 2 = 0 THEN PRESS ELSE RELEASE

ManiaCall(proc, blank_miss, lazy_sliders, times, map_idx, time_offset) ==
    [ proc |-> proc, blank_miss |-> blank_miss, lazy_sliders |-> lazy_sliders,
      map_times |-> times, map_idx |-> map_idx,
      note_type |-> ManiaTypeAt(times, map_idx),
      replay_time |-> times[IF map_idx < Len(times) THEN map_idx + 1
                            ELSE Len(times)] + time_offset ]

QInit ==
    /\ MIdle
    /\ SIdle
    /\ CIdle
    /\ t_own = [ blank_miss |-> FALSE, lazy_sliders |-> FALSE ]
    /\ \E b \in BOOLEAN, l \in BOOLEAN, mt \in ManiaColumnTimes, off \in Offsets :
         \/ \E i \in { 0, 2 } : p_in = ManiaCall("press", b, l, mt, i, off)
         \/ \E i \in { 1, 3 } : p_in = ManiaCall("release", b, l, mt, i, off)
         \/ \E i \in 0..4 : p_in = ManiaCall("free", b, l, mt, i, off)
    /\ p_out = << >>

\* ManiaScoreData.__process_press(column_data, replay_time, map_times, map_idx)
QApplyPress ==
    /\ ~ Called
    /\ p_in.proc = "press"
    /\ p_out' = Mania_process_press(p_in.blank_miss, p_in.lazy_sliders, p_in.replay_time,
                                    p_in.map_times, p_in.map_idx)
    /\ UNCHANGED << c_obj, c_err, c_call, c_writes, t_own, p_in >>
    /\ UNCHANGED << mvars, svars >>

\* ManiaScoreData.__process_release(column_data, replay_time, map_times, map_idx)
QApplyRelease ==
    /\ ~ Called
    /\ p_in.proc = "release"
    /\ p_out' = Mania_process_release(p_in.blank_miss, p_in.lazy_sliders, p_in.replay_time,
                                      p_in.map_times, p_in.map_idx)
    /\ UNCHANGED << c_obj, c_err, c_call, c_writes, t_own, p_in >>
    /\ UNCHANGED << mvars, svars >>

\* ManiaScoreData.__process_free(column_data, note_type, replay_time, map_times, map_idx)
QApplyFree ==
    /\ ~ Called
    /\ p_in.proc = "free"
    /\ p_out' = Mania_process_free(p_in.lazy_sliders, p_in.note_type, p_in.replay_time,
                                   p_in.map_times, p_in.map_idx)
    /\ UNCHANGED << c_obj, c_err, c_call, c_writes, t_own, p_in >>
    /\ UNCHANGED << mvars, svars >>

QNext ==
    \/ QApplyPress
    \/ QApplyRelease
    \/ QApplyFree

SpecManiaProc == QInit /\ [][QNext]_vars

q_note_time == p_in.map_times[p_in.map_idx + 1]

q_offset == p_in.replay_time - q_note_time

\* the PRESS at map_idx starts a long note
q_long_press ==
    p_in.map_times[p_in.map_idx + 2] - p_in.map_times[p_in.map_idx + 1] > 1

\* the RELEASE at map_idx ends a long note
q_long_release ==
    p_in.map_times[p_in.map_idx + 1] - p_in.map_times[p_in.map_idx] > 1

\* the call appended nothing and returned adv
q_none(adv) == p_out.recs = << >> /\ p_out.adv = adv

\* the call appended exactly the judgment of this type for the awaited
\* map event and returned adv
q_judged(type, adv) ==
    /\ p_out.recs = << Rec(p_in.replay_time, q_note_time, type, p_in.map_idx) >>
    /\ p_out.adv = adv

\* C28: the mania press processor with blank_miss and lazy_sliders off.
\* On a single note an offset at or before -neg_hit_miss_range advances 0
\* with no record, up to -neg_hit_range appends one MISS and advances 2,
\* up to pos_hit_range appends one HIT_PRESS and advances 2, up to
\* pos_hit_miss_range appends one MISS and advances 2, and a later offset
\* advances 0 with no record; a HIT_PRESS on a long note advances 1.
\* Each record carries the event time, the note time and the map index.
C28_ManiaPressZones ==
    ( Called /\ p_in.proc = "press" /\ ~ p_in.blank_miss /\ ~ p_in.lazy_sliders ) =>
        IF q_long_press
        THEN (-Mania_neg_hit_range < q_offset /\ q_offset <= Mania_pos_hit_range) =>
                 q_judged(Mania_TYPE_HITP, 1)
        ELSE /\ (q_offset <= -Mania_neg_hit_miss_range) => q_none(0)
             /\ (-Mania_neg_hit_miss_range < q_offset /\ q_offset <= -Mania_neg_hit_range) =>
                     q_judged(Mania_TYPE_MISS, 2)
             /\ (-Mania_neg_hit_range < q_offset /\ q_offset <= Mania_pos_hit_range) =>
                     q_judged(Mania_TYPE_HITP, 2)
             /\ (Mania_pos_hit_range < q_offset /\ q_offset <= Mania_pos_hit_miss_range) =>
                     q_judged(Mania_TYPE_MISS, 2)
             /\ (Mania_pos_hit_miss_range < q_offset) => q_none(0)

\* a long note was pressed on time
C28_Witness ==
    /\ Called
    /\ p_in.proc = "press"
    /\ ~ p_in.blank_miss
    /\ ~ p_in.lazy_sliders
    /\ q_long_press
    /\ q_offset = 0
    /\ q_judged(Mania_TYPE_HITP, 1)

\* the zones of a long note's RELEASE, given what the two outer zones do
ReleaseZones(outer) ==
    /\ (q_offset <= -Mania_neg_rel_miss_range) => outer
    /\ (-Mania_neg_rel_miss_range < q_offset /\ q_offset <= -Mania_neg_rel_range) =>
            q_judged(Mania_TYPE_MISS, 1)
    /\ (-Mania_neg_rel_range < q_offset /\ q_offset <= Mania_pos_rel_range) =>
            q_judged(Mania_TYPE_HITR, 1)
    /\ (Mania_pos_rel_range < q_offset /\ q_offset <= Mania_pos_rel_miss_range) =>
            q_judged(Mania_TYPE_MISS, 1)
    /\ (Mania_pos_rel_miss_range < q_offset) => outer

\* C29, as stated: on a long note's RELEASE with lazy_sliders off an
\* offset at or before -neg_rel_miss_range or after pos_rel_miss_range
\* advances 0 with no record, the two miss zones append one MISS and
\* advance 1 and (-neg_rel_range, pos_rel_range] appends one HIT_RELEASE
\* and advances 1; on a single note's RELEASE, or with lazy_sliders on,
\* the call advances 1 and appends no record at every offset.
C29_ManiaReleaseZones ==
    ( Called /\ p_in.proc = "release" ) =>
        IF q_long_release /\ ~ p_in.lazy_sliders
        THEN ReleaseZones(q_none(0))
        ELSE q_none(1)

\* C29, amended: as stated, except that in the two outer zones the call
\* appends no record only when blank_miss is off; when blank_miss is on
\* it appends exactly one EMPTY record there, still advancing 0.
C29_ManiaReleaseZonesBlank ==
    ( Called /\ p_in.proc = "release" ) =>
        IF q_long_release /\ ~ p_in.lazy_sliders
        THEN ReleaseZones(IF p_in.blank_miss
                          THEN /\ p_out.recs = << Rec(p_in.replay_time, NaN,
                                                       Mania_TYPE_EMPTY, NaN) >>
                               /\ p_out.adv = 0
                          ELSE q_none(0))
        ELSE q_none(1)

\* a long note was released far too late with blank_miss on
C29_Witness ==
    /\ Called
    /\ p_in.proc = "release"
    /\ q_long_release
    /\ ~ p_in.lazy_sliders
    /\ p_in.blank_miss
    /\ q_offset > Mania_pos_rel_miss_range
    /\ Len(p_out.recs) = 1
    /\ p_out.adv = 0

\* the call judges the awaited PRESS a miss
q_press_missed ==
    \/ /\ p_in.proc = "press"
       /\ \/ -Mania_neg_hit_miss_range < q_offset /\ q_offset <= -Mania_neg_hit_range
          \/ Mania_pos_hit_range < q_offset /\ q_offset <= Mania_pos_hit_miss_range
    \/ /\ p_in.proc = "free"
       /\ Mania_pos_hit_miss_range < q_offset

\* C30: when a long note's PRESS is judged MISS, by the press processor
\* in either miss zone or by FREE processing after the late deadline, two
\* records are appended for the note, the first being the press miss with
\* the note's start time and the press's map index, and the call
\* advances 2.
C30_LongNotePressMiss ==
    ( /\ Called
      /\ p_in.note_type = PRESS
      /\ p_in.proc \in { "press", "free" }
      /\ q_long_press
      /\ q_press_missed ) =>
        /\ Len(p_out.recs) = 2
        /\ p_out.recs[1] = Rec(p_in.replay_time, q_note_time, Mania_TYPE_MISS, p_in.map_idx)
        /\ p_out.adv = 2

\* FREE processing of a single note's events, given the late deadline of
\* its RELEASE
FreeSingleNote(release_deadline) ==
    /\ (p_in.note_type = PRESS /\ ~ q_long_press) =>
           IF q_offset <= Mania_pos_hit_miss_range
           THEN q_none(0)
           ELSE q_judged(Mania_TYPE_MISS, 2)
    /\ (p_in.note_type = RELEASE /\ ~ q_long_release) =>
           IF q_offset <= release_deadline
           THEN q_none(0)
           ELSE q_none(1)

Opt(S) == { << >> } \cup { << n >> : n \in S }

\* notes at 1000 in column 0, then optionally in column 1 and in column 2;
\* the rows are in time and column order, as get_action_data leaves them
WideMaps ==
    { a \o b \o c :
        a \in { << Note(1000, 1000 + d, 0) >> : d \in { 1, LongLen } },
        b \in Opt({ Note(1000, 1000 + d, 1) : d \in { 1, LongLen } }),
        c \in Opt({ Note(1000, 1001, 2) }) }

\* at most one tap per column
WideReplays ==
    { a \o b \o c :
        a \in Opt({ Note(p, p + d, 0) : p \in { 850, 1000 }, d \in { 30, 599 } }),
        b \in Opt({ Note(1000, 1000 + d, 1) : d \in { 30, 599 } }),
        c \in Opt({ Note(1000, 1030, 2), Note(1300, 1330, 2) }) }

KInit ==
    /\ SIdle
    /\ CIdle
    /\ PIdle
    /\ m_map \in WideMaps
    /\ m_replay \in WideReplays
    /\ m_blank_miss \in BOOLEAN
    /\ m_lazy_sliders \in BOOLEAN
    /\ m_pc = "entry"
    /\ m_err = ""
    /\ m_col = 0
    /\ m_map_col = << >>
    /\ m_replay_col = << >>
    /\ m_map_idx = 0
    /\ m_replay_idx = 0
    /\ m_note_type = FREE
    /\ m_replay_time = Unbound
    /\ m_replay_type = FREE
    /\ m_column_data = << >>
    /\ m_score_data = << >>
    /\ t_own = [ blank_miss |-> m_blank_miss, lazy_sliders |-> m_lazy_sliders ]

SpecColumns == KInit /\ [][MNext]_vars

\* map2 and replay2 have the column count of the run's inputs and the same
\* rows in column c
SameColumn(map2, replay2, c) ==
    /\ num_keys(map2) = map_num_cols
    /\ num_keys(replay2) = replay_num_cols
    /\ ColFilter(map2, c) = ColFilter(m_map, c)
    /\ ColFilter(replay2, c) = ColFilter(m_replay, c)

\* C32: the records of column c depend only on the notes and the replay
\* events of column c: a run on any other map and replay with the same
\* column count and the same rows in column c returns the same records
\* for column c.
C32_ColumnsIndependent ==
    (m_pc = "done") =>
        \A c \in 0..(map_num_cols - 1), map2 \in WideMaps, replay2 \in WideReplays :
            SameColumn(map2, replay2, c) =>
                LET run2 == Mania_get_score_data(m_blank_miss, m_lazy_sliders, map2, replay2)
                IN  run2.ok => (run2.score_data[c + 1] = m_score_data[c + 1])

\* ------------------------------------------------------------------------
\* The score stream

RECURSIVE Concat(_)
Concat(seqs) == IF seqs = << >> THEN << >> ELSE Head(seqs) \o Concat(Tail(seqs))

\* the records a mania run has emitted so far: the closed columns, then the
\* column being scored
ManiaStream == Concat(m_score_data) \o m_column_data

IsPrefix(a, b) == Len(a) <= Len(b) /\ SubSeq(b, 1, Len(a)) = a

\* C33: the score stream is append-only in both engines: every step of a
\* run leaves the records emitted so far unchanged and in their positions
\* and adds new records only at the end.
C33_AppendOnly ==
    [][ /\ IsPrefix(s_score_data, s_score_data')
        /\ IsPrefix(ManiaStream, ManiaStream') ]_vars

\* a mania run closed a column that had records of its own and end-of-replay
\* fill records, and went on to the next column
C33_Witness ==
    /\ m_pc = "loop"
    /\ Len(m_score_data) = 1
    /\ Len(m_score_data[1]) >= 2
    /\ m_score_data[1][1].type # Mania_TYPE_EMPTY
    /\ m_score_data[1][Len(m_score_data[1])].type = Mania_TYPE_EMPTY

\* ------------------------------------------------------------------------
\* One call of StdScoreData.__adv

\* the map of the test fixture: a slider and two circles
AdvFixtureMap ==
    << Aimpoint(100, 0, 0, PRESS, "SLIDER", 0),
       Aimpoint(350, 100, 0, HOLD, "SLIDER", 0),
       Aimpoint(600, 200, 0, HOLD, "SLIDER", 0),
       Aimpoint(750, 300, 0, RELEASE, "SLIDER", 0),
       Aimpoint(1000, 500, 500, PRESS, "CIRCLE", 1),
       Aimpoint(1001, 500, 500, RELEASE, "CIRCLE", 1),
       Aimpoint(2000, 300, 300, PRESS, "CIRCLE", 2),
       Aimpoint(2001, 300, 300, RELEASE, "CIRCLE", 2) >>

\* the fixture as the test passes it and as get_score_data passes it
AdvMaps == { AdvFixtureMap, FilterSingleRelease(AdvFixtureMap), SliderMap, CircleMap }

\* cursor times from before the first aimpoint to after the last
AdvTimes == 0..(AdvFixtureMap[Len(AdvFixtureMap)].time + 1)

AInit ==
    /\ MIdle
    /\ SIdle
    /\ CIdle
    /\ t_own = [ blank_miss |-> FALSE, lazy_sliders |-> FALSE ]
    /\ \E md \in AdvMaps, t \in AdvTimes, a \in { Std_ADV_NOP, Std_ADV_AIMP, Std_ADV_NOTE } :
         p_in = [ proc |-> "adv", map_data |-> md, map_time |-> t, adv |-> a ]
    /\ p_out = << >>

\* StdScoreData.__adv(map_data, map_time, adv)
AApplyAdv ==
    /\ ~ Called
    /\ p_in.proc = "adv"
    /\ p_out' = [ time |-> Std_adv(p_in.map_data, p_in.map_time, p_in.adv) ]
    /\ UNCHANGED << c_obj, c_err, c_call, c_writes, t_own, p_in >>
    /\ UNCHANGED << mvars, svars >>

ANext == AApplyAdv

SpecAdv == AInit /\ [][ANext]_vars

\* times of the aimpoints strictly later than the cursor
a_later == { p_in.map_data[i].time : i \in { j \in 1..Len(p_in.map_data) :
                                              p_in.map_data[j].time > p_in.map_time } }

\* time of the first aimpoint of hit-object h
a_start(h) ==
    LET own == { i \in 1..Len(p_in.map_data) : p_in.map_data[i].hitobject = h }
    IN  p_in.map_data[CHOOSE i \in own : \A j \in own : i <= j].time

\* the hit-objects that start strictly later than the cursor
a_later_notes ==
    { h \in { p_in.map_data[i].hitobject : i \in 1..Len(p_in.map_data) } :
        a_start(h) > p_in.map_time }

a_last == p_in.map_data[Len(p_in.map_data)].time

\* C35: the advance helper returns the cursor time unchanged for NOP, the
\* time of the first aimpoint strictly later than the cursor for AIMP, the
\* first aimpoint time of the first hit-object that starts strictly later
\* than the cursor for NOTE, and the last aimpoint's time plus 1 when AIMP
\* or NOTE finds nothing.
C35_Advance ==
    ( Called /\ p_in.proc = "adv" ) =>
        /\ (p_in.adv = Std_ADV_NOP) => (p_out.time = p_in.map_time)
        /\ (p_in.adv = Std_ADV_AIMP) =>
               IF a_later = { } THEN p_out.time = a_last + 1
               ELSE /\ p_out.time \in a_later
                    /\ \A t \in a_later : p_out.time <= t
        /\ (p_in.adv = Std_ADV_NOTE) =>
               IF a_later_notes = { } THEN p_out.time = a_last + 1
               ELSE \E h \in a_later_notes :
                        /\ \A g \in a_later_notes : h <= g
                        /\ p_out.time = a_start(h)

\* from inside the last hit-object NOTE finds nothing and AIMP finds the
\* object's last aimpoint
C35_Witness ==
    /\ Called
    /\ p_in.proc = "adv"
    /\ p_in.map_data = AdvFixtureMap
    /\ p_in.adv = Std_ADV_NOTE
    /\ p_in.map_time = 2000
    /\ p_out.time = 2002

\* ------------------------------------------------------------------------
\* The radius of a HOLD aimpoint

\* the offset is one at which a cursor on the slider collects the aimpoint
p_hold_due ==
    IF p_in.proc = "hold" /\ p_in.settings.require_tap_hold
    THEN /\ -p_in.settings.neg_hld_range < p_offset
         /\ p_offset <= p_in.settings.pos_hld_range
    ELSE p_offset >= 0

\* C36: for a HOLD aimpoint the spatial test uses follow_radius in the
\* hold processor and in FREE processing: a cursor farther than
\* follow_radius from the aimpoint never collects it (no AIM_HOLD record),
\* and a cursor within follow_radius collects it when the offset is due.
\* (FREE processing with require_tap_hold on makes no spatial test.)
C36_HoldFollowRadius ==
    ( /\ Called
      /\ p_in.proc \in { "hold", "free" }
      /\ p_in.ap.type = HOLD
      /\ p_in.settings.require_aim_hold
      /\ (p_in.proc = "free" => ~ p_in.settings.require_tap_hold) ) =>
        IF p_outside(p_in.settings.follow_radius_x2)
        THEN \A k \in 1..Len(p_out.recs) : p_out.recs[k].type # Std_TYPE_AIMH
        ELSE p_hold_due => p_one(Std_TYPE_AIMH, Std_ADV_AIMP)

\* ------------------------------------------------------------------------
\* ManiaActionData.__init_replay (src/src/mania/action_data.py, lines 59-94)

MaxFrames == 4

\* cols of the replays
ReplayCols == 2

\* a replay frame: the delta time of get_time_data and the key bit mask of
\* get_xpos_data; frames are in time order, so no delta is negative
Frames == { [ tdelta |-> d, key_press |-> k ] :
              d \in { 0, 16 }, k \in 0..(2 ^ ReplayCols - 1) }

\* (int(key_press) & (1 << col)) > 0
KeyBit(key_press, col) == (key_press \div (2 ^ col)) % 2 = 1

\* a released key stays recorded as held
KeyStep_keep(hold, is_key_hold, timing, col) ==
    IF hold # NaN /\ ~ is_key_hold
    THEN [ hold |-> hold, recs |-> << Note(hold, timing, col) >> ]
    ELSE IF hold = NaN /\ is_key_hold
    THEN [ hold |-> timing, recs |-> << >> ]
    ELSE [ hold |-> hold, recs |-> << >> ]

\* lines 88-92: one column of one frame; hold is hold_state[col], NaN for
\* None
KeyStep(hold, is_key_hold, timing, col) ==
    IF hold # NaN /\ ~ is_key_hold
    THEN [ hold |-> NaN, recs |-> << Note(hold, timing, col) >> ]
    ELSE IF hold = NaN /\ is_key_hold
    THEN [ hold |-> timing, recs |-> << >> ]
    ELSE [ hold |-> hold, recs |-> << >> ]

\* lines 85-92: the columns of one frame, in column order
RECURSIVE FrameRecs(_, _, _, _)
FrameRecs(hold_state, key_press, timing, col) ==
    IF col >= ReplayCols THEN << >>
    ELSE KeyStep(hold_state[col], KeyBit(key_press, col), timing, col).recs
             \o FrameRecs(hold_state, key_press, timing, col + 1)

RInit ==
    /\ MIdle
    /\ SIdle
    /\ CIdle
    /\ t_own = [ blank_miss |-> FALSE, lazy_sliders |-> FALSE ]
    /\ \E n \in 0..MaxFrames : \E fs \in [ 1..n -> Frames ] :
         p_in = [ proc |-> "init_replay", cols |-> ReplayCols, frames |-> fs ]
    /\ p_out = << >>

\* lines 67-80
RStart ==
    /\ ~ Called
    /\ p_in.proc = "init_replay"
    /\ p_out' = [ pc |-> "frames", idx |-> 0, timing |-> 0,
                  hold_state |-> [ col \in 0..(p_in.cols - 1) |-> NaN ],
                  replay_data |-> << >> ]
    /\ UNCHANGED << c_obj, c_err, c_call, c_writes, t_own, p_in >>
    /\ UNCHANGED << mvars, svars >>

\* lines 81-92: one frame
RFrame ==
    /\ Called
    /\ p_in.proc = "init_replay"
    /\ p_out.pc = "frames"
    /\ p_out.idx < Len(p_in.frames)
    /\ LET frame  == p_in.frames[p_out.idx + 1]
           timing == p_out.timing + frame.tdelta
       IN  p_out' = [ pc |-> "frames", idx |-> p_out.idx + 1, timing |-> timing,
                      hold_state |->
                          [ col \in 0..(p_in.cols - 1) |->
                              KeyStep(p_out.hold_state[col],
                                      KeyBit(frame.key_press, col), timing, col).hold ],
                      replay_data |->
                          p_out.replay_data
                              \o FrameRecs(p_out.hold_state, frame.key_press, timing, 0) ]
    /\ UNCHANGED << c_obj, c_err, c_call, c_writes, t_own, p_in >>
    /\ UNCHANGED << mvars, svars >>

\* line 94
RReturn ==
    /\ Called
    /\ p_in.proc = "init_replay"
    /\ p_out.pc = "frames"
    /\ p_out.idx >= Len(p_in.frames)
    /\ p_out' = [ p_out EXCEPT !.pc = "done" ]
    /\ UNCHANGED << c_obj, c_err, c_call, c_writes, t_own, p_in >>
    /\ UNCHANGED << mvars, svars >>

RNext ==
    \/ RStart
    \/ RFrame
    \/ RReturn

SpecReplay == RInit /\ [][RNext]_vars

\* time of frame i
RECURSIVE FrameTime(_)
FrameTime(i) == IF i = 0 THEN 0 ELSE FrameTime(i - 1) + p_in.frames[i].tdelta

\* the key of column col is down in frame i; before the first frame no key
\* is down
Down(i, col) == i >= 1 /\ KeyBit(p_in.frames[i].key_press, col)

Rising(i, col) == Down(i, col) /\ ~ Down(i - 1, col)
Falling(i, col) == i >= 1 /\ ~ Down(i, col) /\ Down(i - 1, col)

\* the frames at which the key of column col falls
Falls(col) == { i \in 1..Len(p_in.frames) : Falling(i, col) }

\* the rising edge that the falling edge at frame i ends
MatchingRise(i, col) ==
    CHOOSE j \in 1..(i - 1) :
        Rising(j, col) /\ \A k \in (j + 1)..(i - 1) : ~ Rising(k, col)

\* indices of the returned records of column col
RecsOfCol(col) ==
    { k \in 1..Len(p_out.replay_data) : p_out.replay_data[k].col = col }

\* the k-th smallest element of a set of numbers
RECURSIVE Nth(_, _)
Nth(S, k) ==
    LET lo == CHOOSE x \in S : \A y \in S : x <= y
    IN  IF k = 1 THEN lo ELSE Nth(S \ { lo }, k - 1)

\* C37: the replay normalisation returns, for each column, exactly one
\* record per falling edge of the column's key bit, in time order, with the
\* time of the matching rising edge as press time and the time of the
\* falling edge as release time; so the press time is never after the
\* release time, no record of a column starts before the one before it
\* has ended, and a key still held at the end yields no record.
C37_ReplayEdges ==
    ( Called /\ p_in.proc = "init_replay" /\ p_out.pc = "done" ) =>
        \A col \in 0..(p_in.cols - 1) :
            /\ Cardinality(RecsOfCol(col)) = Cardinality(Falls(col))
            /\ \A n \in 1..Cardinality(Falls(col)) :
                 LET i == Nth(Falls(col), n)
                     r == p_out.replay_data[Nth(RecsOfCol(col), n)]
                 IN  /\ r.stime = FrameTime(MatchingRise(i, col))
                     /\ r.etime = FrameTime(i)
                     /\ r.stime <= r.etime
            /\ \A k, l \in RecsOfCol(col) :
                 k < l => p_out.replay_data[k].etime <= p_out.replay_data[l].stime

\* a key was pressed and released twice and another is still held at the
\* end
C37_Witness ==
    /\ Called
    /\ p_in.proc = "init_replay"
    /\ p_out.pc = "done"
    /\ Cardinality(RecsOfCol(0)) = 2
    /\ RecsOfCol(1) = { }
    /\ Down(Len(p_in.frames), 1)

\* ------------------------------------------------------------------------
\* Termination

\* aimpoints at or after the std map cursor
s_remaining(map_time) == { i \in 1..Len(s_map_data) : s_map_data[i].time >= map_time }

\* steps a std run can still take: three per replay event left, one per
\* aimpoint left for the catch-up loop, and its position in the loop body
StdWork ==
    IF s_pc = "entry" THEN 3 * Len(s_replay) + Len(s_map) + 2
    ELSE IF s_pc \in { "loop", "catchup", "dispatch" }
    THEN 3 * (Len(s_replay) - s_replay_idx) + Cardinality(s_remaining(s_map_time))
           + (IF s_pc = "catchup" THEN 3 ELSE IF s_pc = "dispatch" THEN 2 ELSE 1)
    ELSE 0

\* rows of action_data in column c; each gives a PRESS and a RELEASE event
RowsOfCol(action_data, c) ==
    Cardinality({ i \in 1..Len(action_data) : action_data[i].col = c })

\* steps a mania column takes at most: three per replay event, one per
\* map event, and the steps that open and close it
ColumnWork(c) == 3 * (2 * RowsOfCol(m_replay, c)) + 2 * RowsOfCol(m_map, c) + 4

\* the columns from c on
RECURSIVE ColumnsWork(_)
ColumnsWork(c) == IF c >= map_num_cols THEN 0 ELSE ColumnWork(c) + ColumnsWork(c + 1)

\* steps a mania run can still take
ManiaWork ==
    IF m_pc = "entry" THEN ColumnsWork(0) + 2
    ELSE IF m_pc = "column" THEN ColumnsWork(m_col) + 1
    ELSE IF m_pc \in { "loop", "free", "dispatch" }
    THEN ColumnsWork(m_col + 1) + 1
           + 3 * (Len(m_replay_col) - m_replay_idx)
           + (IF m_map_idx < Len(m_map_col) THEN Len(m_map_col) - m_map_idx ELSE 0)
           + (IF m_pc = "loop" THEN 2 ELSE IF m_pc = "free" THEN 1 ELSE 0)
    ELSE 0

\* C38: both engines terminate on every finite map and replay: each turn
\* of a main loop moves the replay cursor by exactly one event, each turn
\* of a catch-up loop that does not stop moves the map cursor strictly
\* forward past at least one remaining map event, and so every step of a
\* run uses up some of a finite amount of work that is linear in the
\* number of replay events and map events.
C38_Terminates ==
    [][ /\ (s_pc = "loop" /\ s_pc' # "done") => (s_replay_idx' = s_replay_idx + 1)
        /\ (s_pc \in { "catchup", "dispatch" }) => (s_replay_idx' = s_replay_idx)
        /\ (s_pc = "catchup" /\ s_pc' = "catchup") =>
               /\ s_map_time' > s_map_time
               /\ Cardinality(s_remaining(s_map_time')) <
                      Cardinality(s_remaining(s_map_time))
        /\ (m_pc = "dispatch") => (m_replay_idx' = m_replay_idx + 1 /\ m_pc' = "loop")
        /\ (m_pc = "free" \/ (m_pc = "loop" /\ m_pc' = "free")) =>
               (m_replay_idx' = m_replay_idx)
        /\ (m_pc = "free" /\ m_pc' = "free") =>
               /\ m_map_idx' > m_map_idx
               /\ m_map_idx < Len(m_map_col)
        /\ StdWork' >= 0
        /\ ManiaWork' >= 0
        /\ StdWork' + ManiaWork' < StdWork + ManiaWork ]_vars

\* a mania run that went through its catch-up loop more than once for one
\* event has returned
C38_Witness ==
    /\ m_pc = "done"
    /\ \E c \in 1..Len(m_score_data) :
         \E k \in 1..(Len(m_score_data[c]) - 1) :
            /\ m_score_data[c][k].type = Mania_TYPE_MISS
            /\ m_score_data[c][k + 1].type = Mania_TYPE_MISS
            /\ m_score_data[c][k].replay_t = m_score_data[c][k + 1].replay_t

\* ------------------------------------------------------------------------
\* Judgments per aimpoint

\* indices of the records that judge the aimpoint ap
SJudgments(ap) ==
    { k \in 1..Len(s_score_data) :
        /\ s_score_data[k].type \in { Std_TYPE_HITP, Std_TYPE_HITR, Std_TYPE_AIMH,
                                      Std_TYPE_MISS }
        /\ s_score_data[k].map_t = ap.time
        /\ s_score_data[k].map_x = ap.x
        /\ s_score_data[k].map_y = ap.y }

\* C39: in a std run no aimpoint is judged twice: for every aimpoint of the
\* map at most one HIT_PRESS, HIT_RELEASE, AIM_HOLD or MISS record carries
\* the aimpoint's time and position.
C39_JudgedOnce ==
    \A i \in 1..Len(s_map_data) : Cardinality(SJudgments(s_map_data[i])) <= 1

\* ------------------------------------------------------------------------
\* Order of the judged map events of a mania column

\* the judgment records of a column's records, in emission order
MJudged(score_col) ==
    LET RECURSIVE F(_)
        F(q) == IF q = << >> THEN << >>
                ELSE IF q[1].type \in { Mania_TYPE_HITP, Mania_TYPE_HITR, Mania_TYPE_MISS }
                THEN << q[1] >> \o F(Tail(q))
                ELSE F(Tail(q))
    IN F(score_col)

StrictlyIncreasingIdx(recs) ==
    \A k \in 1..(Len(recs) - 1) : recs[k].map_idx < recs[k + 1].map_idx

\* C40: in each mania column the map indices of the HIT_PRESS, HIT_RELEASE
\* and MISS records are strictly increasing in emission order, in the
\* columns already closed and in the column being scored.
C40_JudgedIdxIncreasing ==
    /\ \A c \in 1..Len(m_score_data) : StrictlyIncreasingIdx(MJudged(m_score_data[c]))
    /\ StrictlyIncreasingIdx(MJudged(m_column_data))

\* a column was closed with three judgments
C40_Witness ==
    /\ m_pc = "done"
    /\ \E c \in 1..Len(m_score_data) : Len(MJudged(m_score_data[c])) >= 3

\* ------------------------------------------------------------------------
\* A map whose aimpoints share a time

\* two circles at the same time, one at each cursor position of the replays
TiedMap ==
    << Aimpoint(1000, 0, 0, PRESS, "CIRCLE", 0),
       Aimpoint(1001, 0, 0, RELEASE, "CIRCLE", 0),
       Aimpoint(1000, 500, 500, PRESS, "CIRCLE", 1),
       Aimpoint(1001, 500, 500, RELEASE, "CIRCLE", 1) >>

STieInit ==
    /\ MIdle
    /\ CIdle
    /\ PIdle
    /\ t_own = [ blank_miss |-> FALSE, lazy_sliders |-> FALSE ]
    /\ s_map = TiedMap
    /\ s_settings \in { DefaultSettings, BlankMissSettings }
    /\ s_replay \in StdReplays(CircleTimes)
    /\ s_map_data = << >>
    /\ s_replay_idx = 0
    /\ s_pc = "entry"
    /\ s_ev = << >>
    /\ s_map_time = 0
    /\ s_last_tap_pos = << NaN, NaN >>
    /\ s_score_data = << >>

SpecTies == STieInit /\ [][SNext]_vars

\* indices of the aimpoints that no record has judged yet
SUnresolved == { i \in 1..Len(s_map_data) : SJudgments(s_map_data[i]) = { } }

\* C34: when several aimpoints share a time and a replay event falls inside
\* their windows, action dispatch judges the event against the
\* earliest-indexed aimpoint among those not yet resolved: every judgment
\* it emits carries the time and position of that aimpoint.
C34_TieBreak ==
    [][ (s_pc = "dispatch" /\ s_pc' = "loop") =>
            \A k \in NewRecs :
                s_score_data'[k].type # Std_TYPE_EMPTY =>
                    /\ SUnresolved # { }
                    /\ LET first == CHOOSE i \in SUnresolved : \A j \in SUnresolved : i <= j
                       IN  /\ s_score_data'[k].map_t = s_map_data[first].time
                           /\ s_score_data'[k].map_x = s_map_data[first].x
                           /\ s_score_data'[k].map_y = s_map_data[first].y ]_vars

====
